---- MODULE Spec2Model ----
(***************************************************************************)
(* A model of the moc3-rs puppet runtime: the MOC3 reader's acceptance     *)
(* rule, the puppet builder (puppet_from_moc3), the per-frame evaluator    *)
(* (Puppet::update: applicator pass, deformer tree walk, glue pass,        *)
(* draw-order resolution) and the kernels it calls.                        *)
(*                                                                         *)
(* f32 values are modelled as exact rationals <<n, d>> (d > 0, lowest      *)
(* terms); a Vec2 is a pair of rationals.  Indices are 0-based as in the   *)
(* source; At(s, i) reads element i of a sequence.                         *)
(***************************************************************************)
EXTENDS Integers, Sequences, FiniteSets, TLC

VARIABLES
    file,       \* index of the input file handed to parse_puppet
    status,     \* "unparsed" | "ok" | "err" | "panic" | "fault"
    puppet,     \* the Puppet built by puppet_from_moc3 (NoPuppet before)
    fd,         \* PuppetFrameData
    pc,         \* position inside Puppet::update
    k,          \* loop index inside the current pass of update (0-based)
    params,     \* parameter vector of the current / last update call
    updates,    \* parameter vectors of the completed update calls, in order
    log,        \* passes' steps executed by the current / last update call
    stray,      \* accesses through a color slot past the end of its buffer
    gin,        \* GlueSpec: the arguments of the apply_glue call
    gout,       \* GlueSpec: the two meshes after the call
    call,       \* KernelSpec: the function called and its arguments
    ret,        \* KernelSpec: what the call returned, or that it panicked
    pendulum,   \* PendulumSpec: the Pendulum (points, vertexes, last rotation)
    build       \* how the compiled walk resolves aliased `&mut` / `&` grids

vars == <<file, status, puppet, fd, pc, k, params, updates, log, stray, gin, gout, call, ret, pendulum, build>>

----------------------------------------------------------------------------
\* Exact rational arithmetic standing for f32.

Abs(x) == IF x < 0 THEN -x ELSE x

RECURSIVE Gcd(_, _)
Gcd(a, b) == IF b = 0 THEN a ELSE Gcd(b, a % b)

Rat(n, d) ==
    LET s == IF d < 0 THEN -1 ELSE 1
        g == Gcd(Abs(n), Abs(d))
    IN  <<(s * n) \div g, (s * d) \div g>>

Q(n) == <<n, 1>>

RAdd(a, b) == Rat(a[1] * b[2] + b[1] * a[2], a[2] * b[2])
RSub(a, b) == Rat(a[1] * b[2] - b[1] * a[2], a[2] * b[2])
RMul(a, b) == Rat(a[1] * b[1], a[2] * b[2])
RDiv(a, b) == Rat(a[1] * b[2], a[2] * b[1])
RNeg(a) == <<-a[1], a[2]>>
RLt(a, b) == a[1] * b[2] < b[1] * a[2]
RLe(a, b) == a[1] * b[2] <= b[1] * a[2]
RMin(a, b) == IF RLt(b, a) THEN b ELSE a

\* `x as usize`: truncation toward zero, negative values saturate to 0.
AsUsize(a) == IF a[1] < 0 THEN 0 ELSE a[1] \div a[2]

\* f32::round: to the nearest integer, halves away from zero.
RRound(a) ==
    IF a[1] >= 0
    THEN Q((2 * a[1] + a[2]) \div (2 * a[2]))
    ELSE Q(-((2 * (-a[1]) + a[2]) \div (2 * a[2])))

\* glam Vec2
V(x, y) == <<x, y>>
VQ(x, y) == <<Q(x), Q(y)>>
VAdd(a, b) == <<RAdd(a[1], b[1]), RAdd(a[2], b[2])>>
VSub(a, b) == <<RSub(a[1], b[1]), RSub(a[2], b[2])>>
VScale(a, s) == <<RMul(a[1], s), RMul(a[2], s)>>

\* The value of a one-element set: Eval({e(x) : x \in {v}}) is e(v) with v
\* computed once.
Eval(S) == CHOOSE r \in S : TRUE

At(s, i) == s[i + 1]
InBounds(s, i) == i >= 0 /\ i < Len(s)

RECURSIVE SeqSum(_)
SeqSum(s) == IF s = <<>> THEN 0 ELSE Head(s) + SeqSum(Tail(s))

RECURSIVE Flatten(_)
Flatten(ss) == IF ss = <<>> THEN <<>> ELSE Head(ss) \o Flatten(Tail(ss))

Range(s) == {s[i] : i \in DOMAIN s}

----------------------------------------------------------------------------
\* interpolate.rs: the unrolled 1/2/3-axis interpolators.  A sample is
\* [p |-> its key point (a tuple of keys), v |-> its lanes (a sequence)].

Lerp(t, ix, iy, ox, oy) ==
    RAdd(RDiv(RMul(RSub(t, ix), RSub(oy, ox)), RSub(iy, ix)), ox)

MinLen(a, b) == IF Len(a) < Len(b) THEN Len(a) ELSE Len(b)

linear_interp(t, lp, lv, rp, rv) ==
    [i \in 1..MinLen(lv, rv) |-> Lerp(t, lp, rp, lv[i], rv[i])]

bilinear_interp(t, bl, br, tl, tr) ==
    LET bottom_interpolated == linear_interp(t[1], bl.p[1], bl.v, br.p[1], br.v)
        top_interpolated == linear_interp(t[1], tl.p[1], tl.v, tr.p[1], tr.v)
    IN  linear_interp(t[2], bl.p[2], bottom_interpolated, tl.p[2], top_interpolated)

trilinear_interp(t, bfl, bfr, bbl, bbr, tfl, tfr, tbl, tbr) ==
    LET bottom_interpolated == bilinear_interp(t, bfl, bfr, bbl, bbr)
        top_interpolated == bilinear_interp(t, tfl, tfr, tbl, tbr)
    IN  linear_interp(t[3], bfl.p[3], bottom_interpolated, tfl.p[3], top_interpolated)

----------------------------------------------------------------------------
\* applicator.rs

\* slice.binary_search_by(total_cmp) on a strictly ascending slice:
\* Ok(position) when present, Err(insertion point) otherwise.
binary_search(slice, elem) ==
    IF \E i \in DOMAIN slice : slice[i] = elem
    THEN [ok |-> TRUE, index |-> (CHOOSE i \in DOMAIN slice : slice[i] = elem) - 1]
    ELSE [ok |-> FALSE,
          index |-> Cardinality({i \in DOMAIN slice : RLt(slice[i], elem)})]

\* Returns <<lower, upper>>.  For Err(0) the source computes 0usize - 1: a
\* debug build panics there, a release build wraps to usize::MAX and panics
\* at the first keys[lower]; -1 stands for both (it is never a valid index).
lower_upper_indices(slice, elem) ==
    LET value == binary_search(slice, elem)
        index == value.index
    IN  IF value.ok
        THEN IF index = 0 THEN <<0, 1>>
             ELSE IF index = Len(slice) - 1 THEN <<Len(slice) - 2, Len(slice) - 1>>
             ELSE <<index, index + 1>>
        ELSE <<index - 1, index>>

\* BlendShapeConstraints::process
rescale(t, lower, upper) == RDiv(RSub(t, lower), RSub(upper, lower))

ConstraintPanics(c, parameters) ==
    \/ ~InBounds(parameters, c.parameter_index)
    \/ LET lu == lower_upper_indices(c.keys, At(parameters, c.parameter_index))
       IN  \/ ~InBounds(c.keys, lu[1]) \/ ~InBounds(c.keys, lu[2])
           \/ ~InBounds(c.weights, lu[1]) \/ ~InBounds(c.weights, lu[2])

process(c, parameters) ==
    LET param == At(parameters, c.parameter_index)
        lu == lower_upper_indices(c.keys, param)
        scaled == rescale(param, At(c.keys, lu[1]), At(c.keys, lu[2]))
    IN  RAdd(RMul(RSub(Q(1), scaled), At(c.weights, lu[1])),
             RMul(scaled, At(c.weights, lu[2])))

\* An Option is a sequence of length 0 (None) or 1 (Some).
IsSome(o) == Len(o) = 1
Unwrap(o) == o[1]
Some(x) == <<x>>
None == <<>>

\* The keyform index computed by the `temp` closures.
KeyformIndex(app, x, y, z) ==
    IF IsSome(app.z)
    THEN x + y * Len(Unwrap(app.x).keys) + z * Len(Unwrap(app.y).keys)
    ELSE IF IsSome(app.y) THEN x + y * Len(Unwrap(app.x).keys)
    ELSE x

\* The axes an interpolation reads: z implies y and x, y implies x.
UsedAxes(app) ==
    IF IsSome(app.z) THEN <<Unwrap(app.x), Unwrap(app.y), Unwrap(app.z)>>
    ELSE IF IsSome(app.y) THEN <<Unwrap(app.x), Unwrap(app.y)>>
    ELSE IF IsSome(app.x) THEN <<Unwrap(app.x)>>
    ELSE <<>>

AxisBracket(ax, parameters) == lower_upper_indices(ax.keys, At(parameters, ax.param))

\* Whether one interpolation over `table` panics: an Option unwrapped on
\* None, a parameter index out of bounds, a key index out of bounds, or a
\* keyform index out of bounds.
InterpolatePanics(app, parameters, table) ==
    \/ (IsSome(app.z) /\ (~IsSome(app.y) \/ ~IsSome(app.x)))
    \/ (IsSome(app.y) /\ ~IsSome(app.x))
    \/ LET axes == UsedAxes(app)
       IN  \/ \E i \in DOMAIN axes : ~InBounds(parameters, axes[i].param)
           \/ \E i \in DOMAIN axes :
                LET lu == AxisBracket(axes[i], parameters)
                IN  ~InBounds(axes[i].keys, lu[1]) \/ ~InBounds(axes[i].keys, lu[2])
           \/ LET lu(i) == IF i <= Len(axes) THEN AxisBracket(axes[i], parameters)
                           ELSE <<0, 0>>
              IN  \E cx \in {lu(1)[1], lu(1)[2]}, cy \in {lu(2)[1], lu(2)[2]},
                     cz \in {lu(3)[1], lu(3)[2]} :
                        ~InBounds(table, KeyformIndex(app, cx, cy, cz))

\* do_interpolate / do_interpolate_single / the rotation arm of apply, on a
\* table of lane vectors (cast_slice of the keyform).
Interpolate(app, parameters, table) ==
    IF IsSome(app.z) THEN
        LET xu == Unwrap(app.x)
            yu == Unwrap(app.y)
            zu == Unwrap(app.z)
            x_val == At(parameters, xu.param)
            y_val == At(parameters, yu.param)
            z_val == At(parameters, zu.param)
            xi == lower_upper_indices(xu.keys, x_val)
            yi == lower_upper_indices(yu.keys, y_val)
            zi == lower_upper_indices(zu.keys, z_val)
            temp(x, y, z) ==
                [p |-> <<At(xu.keys, x), At(yu.keys, y), At(zu.keys, z)>>,
                 v |-> At(table, KeyformIndex(app, x, y, z))]
        IN  trilinear_interp(<<x_val, y_val, z_val>>,
                temp(xi[1], yi[1], zi[1]), temp(xi[2], yi[1], zi[1]),
                temp(xi[1], yi[2], zi[1]), temp(xi[2], yi[2], zi[1]),
                temp(xi[1], yi[1], zi[2]), temp(xi[2], yi[1], zi[2]),
                temp(xi[1], yi[2], zi[2]), temp(xi[2], yi[2], zi[2]))
    ELSE IF IsSome(app.y) THEN
        LET xu == Unwrap(app.x)
            yu == Unwrap(app.y)
            x_val == At(parameters, xu.param)
            y_val == At(parameters, yu.param)
            xi == lower_upper_indices(xu.keys, x_val)
            yi == lower_upper_indices(yu.keys, y_val)
            temp(x, y) ==
                [p |-> <<At(xu.keys, x), At(yu.keys, y)>>,
                 v |-> At(table, KeyformIndex(app, x, y, 0))]
        IN  bilinear_interp(<<x_val, y_val>>,
                temp(xi[1], yi[1]), temp(xi[2], yi[1]),
                temp(xi[1], yi[2]), temp(xi[2], yi[2]))
    ELSE IF IsSome(app.x) THEN
        LET xu == Unwrap(app.x)
            x_val == At(parameters, xu.param)
            xi == lower_upper_indices(xu.keys, x_val)
        IN  linear_interp(x_val, At(xu.keys, xi[1]), At(table, KeyformIndex(app, xi[1], 0, 0)),
                                 At(xu.keys, xi[2]), At(table, KeyformIndex(app, xi[2], 0, 0)))
    ELSE At(table, 0)

\* bytemuck casts between Vec<Vec2> and its f32 lanes.
RECURSIVE cast_slice(_)
cast_slice(vs) ==
    IF vs = <<>> THEN <<>> ELSE <<Head(vs)[1], Head(vs)[2]>> \o cast_slice(Tail(vs))

cast_vec(fs) == [i \in 1..(Len(fs) \div 2) |-> <<fs[2 * i - 1], fs[2 * i]>>]

Singles(fs) == [i \in DOMAIN fs |-> <<fs[i]>>]

----------------------------------------------------------------------------
\* deformer/warp_deformer.rs

warp_bilinear_interp(t, bottom_left, bottom_right, top_left, top_right) ==
    LET nx == RSub(Q(1), t[1])
        ny == RSub(Q(1), t[2])
    IN  VAdd(VAdd(VScale(VScale(bottom_left, nx), ny),
                  VScale(VScale(bottom_right, t[1]), ny)),
             VAdd(VScale(VScale(top_left, nx), t[2]),
                  VScale(VScale(top_right, t[1]), t[2])))

\* triangular_interp whose upper triangle hangs off the wrong corners.
triangular_interp_swapped(t, bottom_left, bottom_right, top_left, top_right) ==
    LET nx == RSub(Q(1), t[1])
        ny == RSub(Q(1), t[2])
    IN  IF RLt(Q(1), RAdd(t[1], t[2]))
        THEN VAdd(VAdd(top_right, VScale(VSub(bottom_right, top_right), nx)),
                  VScale(VSub(top_left, top_right), ny))
        ELSE VAdd(VAdd(bottom_left, VScale(VSub(bottom_right, bottom_left), t[1])),
                  VScale(VSub(top_left, bottom_left), t[2]))

triangular_interp(t, bottom_left, bottom_right, top_left, top_right) ==
    LET nx == RSub(Q(1), t[1])
        ny == RSub(Q(1), t[2])
    IN  IF RLt(Q(1), RAdd(t[1], t[2]))
        THEN VAdd(VAdd(top_right, VScale(VSub(top_left, top_right), nx)),
                  VScale(VSub(bottom_right, top_right), ny))
        ELSE VAdd(VAdd(bottom_left, VScale(VSub(bottom_right, bottom_left), t[1])),
                  VScale(VSub(top_left, bottom_left), t[2]))

\* calc_case_index with the unit interval closed at 1 (x > 1.0 for column 2).
calc_case_index_closed(point) ==
    LET x_ind == IF RLt(Q(1), point[1]) THEN 2 ELSE IF RLe(Q(0), point[1]) THEN 1 ELSE 0
        y_ind == IF RLt(Q(1), point[2]) THEN 2 ELSE IF RLe(Q(0), point[2]) THEN 1 ELSE 0
    IN  x_ind + y_ind * 3

calc_case_index(point) ==
    LET x_ind == IF RLe(Q(1), point[1]) THEN 2 ELSE IF RLe(Q(0), point[1]) THEN 1 ELSE 0
        y_ind == IF RLe(Q(1), point[2]) THEN 2 ELSE IF RLe(Q(0), point[2]) THEN 1 ELSE 0
    IN  x_ind + y_ind * 3

is_normal(point) ==
    /\ RLe(Q(0), point[1]) /\ RLt(point[1], Q(1))
    /\ RLe(Q(0), point[2]) /\ RLt(point[2], Q(1))

is_transition(point) ==
    /\ RLe(Q(-2), point[1]) /\ RLe(point[1], Q(3))
    /\ RLe(Q(-2), point[2]) /\ RLe(point[2], Q(3))

\* The `_ => unreachable!()` arm of the transition match.
WarpPointPanics(point) ==
    ~is_normal(point) /\ is_transition(point) /\ calc_case_index(point) = 4

Frac(a) == RSub(a, Q(AsUsize(a)))
IMin(a, b) == IF a < b THEN a ELSE b

\* One iteration of the loop of apply_warp_deformer: the image of one point.
WarpPoint(grid, is_new_deformer, rows, columns, point) ==
    LET column_points == columns + 1
        point_grid == <<RMul(point[1], Q(columns)), RMul(point[2], Q(rows))>>
        grid_x == AsUsize(point_grid[1])
        grid_y == AsUsize(point_grid[2])
    IN  IF is_normal(point) THEN
            LET grid_index == grid_x + grid_y * column_points
                t == <<Frac(point_grid[1]), Frac(point_grid[2])>>
            IN  IF is_new_deformer
                THEN warp_bilinear_interp(t, At(grid, grid_index), At(grid, grid_index + 1),
                        At(grid, grid_index + column_points),
                        At(grid, grid_index + column_points + 1))
                ELSE triangular_interp(t, At(grid, grid_index), At(grid, grid_index + 1),
                        At(grid, grid_index + column_points),
                        At(grid, grid_index + column_points + 1))
        ELSE
            LET g00 == At(grid, 0)
                gC0 == At(grid, columns)
                g0R == At(grid, rows * column_points)
                gCR == At(grid, columns + rows * column_points)
                centroid == VScale(VAdd(VAdd(g00, gC0), VAdd(g0R, gCR)), Rat(1, 4))
                diagonal_one == VSub(gCR, g00)
                diagonal_two == VSub(gC0, g0R)
                v_x == VScale(VAdd(diagonal_one, diagonal_two), Rat(1, 2))
                v_y == VScale(VSub(diagonal_one, diagonal_two), Rat(1, 2))
                origin == VSub(centroid, VScale(diagonal_one, Rat(1, 2)))
                para(fx, fy) == VAdd(VAdd(origin, VScale(v_x, fx)), VScale(v_y, fy))
                agx == IMin(grid_x, columns - 1)
                agy == IMin(grid_y, rows - 1)
                fx1 == Rat(agx, columns)
                fx2 == Rat(agx + 1, columns)
                fy1 == Rat(agy, rows)
                fy2 == Rat(agy + 1, rows)
                tx == RSub(point_grid[1], Q(agx))
                ty == RSub(point_grid[2], Q(agy))
                lo(c) == rescale(c, Q(-2), Q(0))
                hi(c) == rescale(c, Q(1), Q(3))
                case == calc_case_index(point)
            IN  IF is_transition(point) THEN
                    CASE case = 7 ->
                            triangular_interp(<<tx, hi(point[2])>>,
                                At(grid, agx + rows * column_points),
                                At(grid, agx + 1 + rows * column_points),
                                para(fx1, Q(3)), para(fx2, Q(3)))
                      [] case = 1 ->
                            triangular_interp(<<tx, lo(point[2])>>,
                                para(fx1, Q(-2)), para(fx2, Q(-2)),
                                At(grid, agx), At(grid, agx + 1))
                      [] case = 3 ->
                            triangular_interp(<<lo(point[1]), ty>>,
                                para(Q(-2), fy1), At(grid, agy * column_points),
                                para(Q(-2), fy2), At(grid, (agy + 1) * column_points))
                      [] case = 5 ->
                            triangular_interp(<<hi(point[1]), ty>>,
                                At(grid, columns + agy * column_points), para(Q(3), fy1),
                                At(grid, columns + (agy + 1) * column_points), para(Q(3), fy2))
                      [] case = 6 ->
                            triangular_interp(<<lo(point[1]), hi(point[2])>>,
                                para(Q(-2), Q(1)), g0R, para(Q(-2), Q(3)), para(Q(0), Q(3)))
                      [] case = 8 ->
                            triangular_interp(<<hi(point[1]), hi(point[2])>>,
                                gCR, para(Q(3), Q(1)), para(Q(1), Q(3)), para(Q(3), Q(3)))
                      [] case = 0 ->
                            triangular_interp(<<lo(point[1]), lo(point[2])>>,
                                para(Q(-2), Q(-2)), para(Q(0), Q(-2)), para(Q(-2), Q(0)), g00)
                      [] case = 2 ->
                            triangular_interp(<<hi(point[1]), lo(point[2])>>,
                                para(Q(1), Q(-2)), para(Q(3), Q(-2)), gC0, para(Q(3), Q(0)))
                ELSE VAdd(VAdd(origin, VScale(v_x, point[1])), VScale(v_y, point[2]))

apply_warp_deformer(grid, is_new_deformer, rows, columns, points_to_transform) ==
    Eval({[i \in DOMAIN pts |-> Eval({WarpPoint(g, is_new_deformer, rows, columns, pt) :
                                        pt \in {pts[i]}})] :
            g \in {grid}, pts \in {points_to_transform}})

----------------------------------------------------------------------------
\* deformer/rotation_deformer.rs

\* sin and cos of an angle in degrees.  The model keeps every angle at a
\* whole multiple of 90 degrees, where both are exact.
QuarterTurns(deg) == (deg[1] \div 90) % 4
SinDeg(deg) == CASE QuarterTurns(deg) = 0 -> Q(0) [] QuarterTurns(deg) = 1 -> Q(1)
                 [] QuarterTurns(deg) = 2 -> Q(0) [] QuarterTurns(deg) = 3 -> Q(-1)
CosDeg(deg) == CASE QuarterTurns(deg) = 0 -> Q(1) [] QuarterTurns(deg) = 1 -> Q(0)
                 [] QuarterTurns(deg) = 2 -> Q(-1) [] QuarterTurns(deg) = 3 -> Q(0)
ExactAngle(deg) == deg[2] = 1 /\ deg[1] % 90 = 0

TransformData(origin, scale, angle) == [origin |-> origin, scale |-> scale, angle |-> angle]

\* Mat3::from_scale_angle_translation(splat(scale), angle, origin).transform_point2
RotatePoint(data, base_angle, p) ==
    LET a == RAdd(base_angle, data.angle)
        c == CosDeg(a)
        s == SinDeg(a)
    IN  <<RAdd(RMul(data.scale, RSub(RMul(c, p[1]), RMul(s, p[2]))), data.origin[1]),
          RAdd(RMul(data.scale, RAdd(RMul(s, p[1]), RMul(c, p[2]))), data.origin[2])>>

apply_rotation_deformer(data, base_angle, points_to_transform) ==
    Eval({[i \in DOMAIN pts |-> Eval({RotatePoint(d, base_angle, pt) : pt \in {pts[i]}})] :
            d \in {data}, pts \in {points_to_transform}})

----------------------------------------------------------------------------
\* deformer/glue.rs

\* A chunk whose second statement reads art_mesh_one after the first
\* statement has written it, instead of the copy `a` taken before.
GlueChunkInPlace(intensity, i0, i1, w0, w1, m) ==
    LET a == At(m[1], i0)
        b == At(m[2], i1)
        moved == VAdd(a, VScale(VScale(VSub(b, a), w0), intensity))
    IN  <<[m[1] EXCEPT ![i0 + 1] = moved],
          [m[2] EXCEPT ![i1 + 1] = VAdd(b, VScale(VScale(VSub(moved, b), w1), intensity))]>>

\* One (index, weight) chunk of the loop of apply_glue on the pair of meshes
\* m = <<art_mesh_one, art_mesh_two>>: both statements use the copies a, b.
GlueChunk(intensity, i0, i1, w0, w1, m) ==
    LET a == At(m[1], i0)
        b == At(m[2], i1)
    IN  <<[m[1] EXCEPT ![i0 + 1] = VAdd(a, VScale(VScale(VSub(b, a), w0), intensity))],
          [m[2] EXCEPT ![i1 + 1] = VAdd(b, VScale(VScale(VSub(a, b), w1), intensity))]>>

RECURSIVE GlueLoop(_, _, _, _, _)
GlueLoop(intensity, positions, weights, m, c) ==
    IF 2 * c > Len(positions) \/ 2 * c > Len(weights) THEN m
    ELSE Eval({GlueLoop(intensity, positions, weights, next, c + 1) :
                next \in {GlueChunk(intensity, positions[2 * c - 1], positions[2 * c],
                                    weights[2 * c - 1], weights[2 * c], m)}})

\* Returns <<art_mesh_one, art_mesh_two>> after the call.
apply_glue(intensity, positions, weights, art_mesh_one, art_mesh_two) ==
    GlueLoop(intensity, positions, weights, <<art_mesh_one, art_mesh_two>>, 1)

GluePanics(positions, weights, art_mesh_one, art_mesh_two) ==
    \E c \in 1..(Len(positions) \div 2) :
        /\ 2 * c <= Len(weights)
        /\ (~InBounds(art_mesh_one, positions[2 * c - 1])
            \/ ~InBounds(art_mesh_two, positions[2 * c]))

----------------------------------------------------------------------------
\* data.rs: the parsed file.  A file is its header bytes, whether every
\* section it points at lies inside it, and its section tables.  Slices the
\* builder takes as [start .. start + count] of a flat array that no other
\* entity shares (keys, keyform positions, opacities, ...) are stored
\* already cut; index tables the builder resolves are stored as written.

\* u32::MAX, the "no index" sentinel.  The source's value is 4294967295; the
\* model uses the largest integer TLC represents, which no index reaches.
U32Max == 2147483647
V3_00 == 1
V3_03 == 2
V4_00 == 3
V4_02 == 4
Versions == {V3_00, V3_03, V4_00, V4_02}

Half == Rat(1, 2)
Quarter == Rat(1, 4)

Parameter(min, max, start, count, ptype, bs_start, bs_count) ==
    [min |-> min, max |-> max, default |-> min,
     parameter_binding_sources_start |-> start,
     parameter_binding_sources_count |-> count,
     parameter_type |-> ptype,
     blend_shape_parameter_binding_sources_start |-> bs_start,
     blend_shape_parameter_binding_sources_count |-> bs_count]

Span(start, count) == [start |-> start, count |-> count]
Deformer(type, specific, parent) ==
    [type |-> type, specific_sources_index |-> specific, parent_deformer_index |-> parent]
DrawObject(type, index, self_index) ==
    [type |-> type, index |-> index, self_index |-> self_index]

EmptyTable ==
    [parameters |-> <<>>, parameter_bindings |-> <<>>,
     parameter_binding_indices |-> <<>>, keyform_bindings |-> <<>>,
     deformers |-> <<>>, warp_deformers |-> <<>>, rotation_deformers |-> <<>>,
     art_meshes |-> <<>>, glues |-> <<>>,
     draw_order_groups |-> <<>>, draw_order_group_objects |-> <<>>,
     blend_shape_parameter_bindings |-> <<>>, blend_shape_keyform_bindings |-> <<>>,
     blend_shape_art_meshes |-> <<>>, blend_shape_warp_deformers |-> <<>>]

UnitGrid == <<VQ(0, 0), VQ(1, 0), VQ(0, 1), VQ(1, 1)>>
ShiftGrid == <<VQ(1, 0), VQ(2, 0), VQ(1, 1), VQ(2, 1)>>
WideGrid == <<VQ(0, 0), VQ(2, 0), VQ(0, 2), VQ(3, 3)>>
SkewGrid == <<VQ(0, 0), VQ(1, 1), VQ(0, 2), VQ(2, 2)>>

\* A chain rotation -> rotation -> warp -> art mesh, a second art mesh under
\* the inner rotation, one glue, a nested draw-order group; two parameters.
ChainTable ==
    [EmptyTable EXCEPT
        !.parameters = <<Parameter(Q(0), Q(1), 0, 2, "Normal", 0, 0),
                         Parameter(Q(0), Q(1), 2, 2, "Normal", 0, 0)>>,
        !.parameter_bindings = <<[keys |-> <<Q(0), Q(1)>>], [keys |-> <<Q(0), Q(1)>>],
                                 [keys |-> <<Q(0), Q(1)>>],
                                 [keys |-> <<Q(0), Half, Q(1)>>]>>,
        !.parameter_binding_indices = <<0, 1, 2, 3, 0>>,
        !.keyform_bindings = <<Span(0, 1), Span(0, 0), Span(1, 2), Span(3, 1), Span(4, 1)>>,
        !.deformers = <<Deformer(1, 0, -1), Deformer(1, 1, 0), Deformer(0, 0, 1)>>,
        !.rotation_deformers =
            <<[base_angle |-> Q(0), keyform_binding_sources_index |-> 0,
               transforms |-> <<TransformData(VQ(0, 0), Q(1), Q(0)),
                                TransformData(VQ(0, 0), Q(2), Q(180))>>,
               opacities |-> <<Q(1), Half>>],
              [base_angle |-> Q(90), keyform_binding_sources_index |-> 1,
               transforms |-> <<TransformData(VQ(1, 0), Q(2), Q(0))>>,
               opacities |-> <<Half>>]>>,
        !.warp_deformers =
            <<[rows |-> 1, columns |-> 1, is_new_deformerr |-> 1,
               keyform_binding_sources_index |-> 2,
               grids |-> <<UnitGrid, ShiftGrid, WideGrid, SkewGrid>>,
               opacities |-> <<Q(1), Q(1), Half, Q(0)>>]>>,
        !.art_meshes =
            <<[parent_deformer_index |-> 2, keyform_binding_sources_index |-> 3,
               vertex_count |-> 2,
               positions |-> <<<<V(Quarter, Quarter), V(Half, Half)>>,
                               <<V(Half, Quarter), V(Rat(3, 2), Half)>>,
                               <<VQ(2, -1), VQ(4, 4)>>>>,
               opacities |-> <<Q(1), Half, Q(0)>>,
               draw_orders |-> <<Q(500), Q(300), Q(700)>>],
              [parent_deformer_index |-> 1, keyform_binding_sources_index |-> 4,
               vertex_count |-> 1,
               positions |-> <<<<VQ(1, 0)>>, <<VQ(0, 1)>>>>,
               opacities |-> <<Q(1), Q(1)>>,
               draw_orders |-> <<Q(400), Q(600)>>]>>,
        !.glues =
            <<[keyform_binding_sources_index |-> 0,
               art_mesh_index_a |-> 0, art_mesh_index_b |-> 1,
               vertex_indices |-> <<1, 0>>, weights |-> <<Half, Half>>,
               intensities |-> <<Q(0), Q(1)>>]>>,
        !.draw_order_groups = <<Span(0, 2), Span(2, 1)>>,
        !.draw_order_group_objects =
            <<DrawObject("ArtMesh", 1, U32Max), DrawObject("Part", 0, 1),
              DrawObject("ArtMesh", 0, U32Max)>>]

\* A V4_02 file with blend shapes: a warp deformer with an art mesh under
\* it, a root art mesh, a blend shape on art mesh 1 and one on the warp
\* deformer; parameter 0 is Normal, parameter 1 is BlendShape.
BlendTable ==
    [EmptyTable EXCEPT
        !.parameters = <<Parameter(Q(0), Q(1), 0, 1, "Normal", 0, 0),
                         Parameter(Q(0), Q(1), 1, 0, "BlendShape", 0, 2)>>,
        !.parameter_bindings = <<[keys |-> <<Q(0), Q(1)>>]>>,
        !.parameter_binding_indices = <<0>>,
        !.keyform_bindings = <<Span(0, 1), Span(0, 0)>>,
        !.deformers = <<Deformer(0, 0, -1)>>,
        !.warp_deformers =
            <<[rows |-> 1, columns |-> 1, is_new_deformerr |-> 0,
               keyform_binding_sources_index |-> 0,
               grids |-> <<UnitGrid, WideGrid>>,
               opacities |-> <<Q(1), Half>>]>>,
        !.art_meshes =
            <<[parent_deformer_index |-> 0, keyform_binding_sources_index |-> 1,
               vertex_count |-> 1,
               positions |-> <<<<V(Half, Quarter)>>>>,
               opacities |-> <<Half>>,
               draw_orders |-> <<Q(500)>>],
              [parent_deformer_index |-> -1, keyform_binding_sources_index |-> 0,
               vertex_count |-> 1,
               positions |-> <<<<VQ(0, 0)>>, <<VQ(2, 0)>>>>,
               opacities |-> <<Q(1), Q(0)>>,
               draw_orders |-> <<Rat(999, 2), Rat(1001, 2)>>]>>,
        !.draw_order_groups = <<Span(0, 2)>>,
        !.draw_order_group_objects =
            <<DrawObject("ArtMesh", 0, U32Max), DrawObject("ArtMesh", 1, U32Max)>>,
        !.blend_shape_parameter_bindings =
            <<[keys |-> <<Q(0), Q(1)>>], [keys |-> <<Q(0), Q(1)>>]>>,
        !.blend_shape_keyform_bindings =
            <<[blend_shape_parameter_binding_sources_index |-> 0,
               positions |-> <<<<VQ(0, 0)>>, <<VQ(4, 4)>>>>,
               opacities |-> <<Q(1), Q(1)>>, draw_orders |-> <<Q(500), Q(500)>>,
               constraints |-> <<[parameter_index |-> 0, keys |-> <<Q(0), Q(1)>>,
                                  weights |-> <<Q(0), Q(1)>>]>>],
              [blend_shape_parameter_binding_sources_index |-> 1,
               positions |-> <<UnitGrid, ShiftGrid>>,
               opacities |-> <<Q(1), Q(1)>>, draw_orders |-> <<>>,
               constraints |-> <<[parameter_index |-> 0, keys |-> <<Q(0), Q(1)>>,
                                  weights |-> <<Q(1), Q(0)>>]>>]>>,
        !.blend_shape_art_meshes = <<[target_index |-> 1, start |-> 0, count |-> 1]>>,
        !.blend_shape_warp_deformers = <<[target_index |-> 0, start |-> 1, count |-> 1]>>]

\* A warp deformer with a rotation deformer under it and one art mesh under
\* that.  One parameter.
WarpRotTable ==
    [EmptyTable EXCEPT
        !.parameters = <<Parameter(Q(0), Q(1), 0, 1, "Normal", 0, 0)>>,
        !.parameter_bindings = <<[keys |-> <<Q(0), Q(1)>>]>>,
        !.parameter_binding_indices = <<0>>,
        !.keyform_bindings = <<Span(0, 1)>>,
        !.deformers = <<Deformer(0, 0, -1), Deformer(1, 0, 0)>>,
        !.warp_deformers =
            <<[rows |-> 1, columns |-> 1, is_new_deformerr |-> 1,
               keyform_binding_sources_index |-> 0,
               grids |-> <<UnitGrid, ShiftGrid>>,
               opacities |-> <<Q(1), Half>>]>>,
        !.rotation_deformers =
            <<[base_angle |-> Q(0), keyform_binding_sources_index |-> 0,
               transforms |-> <<TransformData(V(Half, Half), Q(1), Q(0)),
                                TransformData(V(Half, Half), Q(2), Q(180))>>,
               opacities |-> <<Q(1), Q(1)>>]>>,
        !.art_meshes =
            <<[parent_deformer_index |-> 1, keyform_binding_sources_index |-> 0,
               vertex_count |-> 1,
               positions |-> <<<<VQ(1, 0)>>, <<VQ(0, 1)>>>>,
               opacities |-> <<Q(1), Half>>,
               draw_orders |-> <<Q(500), Q(500)>>]>>,
        !.draw_order_groups = <<Span(0, 1)>>,
        !.draw_order_group_objects = <<DrawObject("ArtMesh", 0, U32Max)>>]

\* One root art mesh with a keyform opacity above 1, one parameter.
MeshTable ==
    [EmptyTable EXCEPT
        !.parameters = <<Parameter(Q(0), Q(1), 0, 1, "Normal", 0, 0)>>,
        !.parameter_bindings = <<[keys |-> <<Q(0), Q(1)>>]>>,
        !.parameter_binding_indices = <<0, 0, 0, 0>>,
        !.keyform_bindings = <<Span(0, 1), Span(0, 4)>>,
        !.art_meshes =
            <<[parent_deformer_index |-> -1, keyform_binding_sources_index |-> 0,
               vertex_count |-> 1,
               positions |-> <<<<VQ(0, 0)>>, <<VQ(1, 1)>>>>,
               opacities |-> <<Q(0), Q(2)>>,
               draw_orders |-> <<Q(500), Q(500)>>]>>,
        !.draw_order_groups = <<Span(0, 1)>>,
        !.draw_order_group_objects = <<DrawObject("ArtMesh", 0, U32Max)>>]

\* MeshTable with four parameter bindings (two keys each, so 16 keyforms) on
\* the art mesh's keyform binding.
FourAxisMeshTable ==
    [MeshTable EXCEPT
        !.art_meshes[1] =
            [parent_deformer_index |-> -1, keyform_binding_sources_index |-> 1,
             vertex_count |-> 1,
             positions |-> [i \in 1..16 |-> <<VQ(i - 1, 0)>>],
             opacities |-> [i \in 1..16 |-> Q(1)],
             draw_orders |-> [i \in 1..16 |-> Q(500)]]]

\* WarpRotTable with four parameter bindings on the deformers' keyform binding.
FourAxisWarpTable ==
    [WarpRotTable EXCEPT !.parameter_binding_indices = <<0, 0, 0, 0>>,
                         !.keyform_bindings = <<Span(0, 4)>>]

\* WarpRotTable with the two deformers stored child first.
ChildFirstTable ==
    [WarpRotTable EXCEPT !.deformers = <<Deformer(1, 0, 1), Deformer(0, 0, -1)>>]

\* BlendTable with a constraint weight above 1 on the art-mesh blend shape.
HeavyBlendTable ==
    [BlendTable EXCEPT
        !.blend_shape_keyform_bindings[1].constraints =
            <<[parameter_index |-> 0, keys |-> <<Q(0), Q(1)>>,
               weights |-> <<Q(0), Q(2)>>]>>]

\* A root warp deformer (deformer 0) with two rotation deformers under it
\* (deformers 1 and 2), a rotation deformer (deformer 3) with an art mesh
\* under deformer 1, and a root rotation deformer (deformer 4).  Every
\* object has one keyform and no parameter.
CrossTable ==
    [EmptyTable EXCEPT
        !.keyform_bindings = <<Span(0, 0)>>,
        !.deformers = <<Deformer(0, 0, -1), Deformer(1, 0, 0), Deformer(1, 1, 0),
                        Deformer(1, 2, 1), Deformer(1, 3, -1)>>,
        !.warp_deformers =
            <<[rows |-> 1, columns |-> 1, is_new_deformerr |-> 1,
               keyform_binding_sources_index |-> 0,
               grids |-> <<UnitGrid>>, opacities |-> <<Q(1)>>]>>,
        !.rotation_deformers =
            [i \in 1..4 |->
                [base_angle |-> Q(0), keyform_binding_sources_index |-> 0,
                 transforms |-> <<TransformData(V(Half, Half), Q(1), Q(0))>>,
                 opacities |-> <<Half>>]],
        !.art_meshes =
            <<[parent_deformer_index |-> 3, keyform_binding_sources_index |-> 0,
               vertex_count |-> 1,
               positions |-> <<<<V(Quarter, Quarter)>>>>,
               opacities |-> <<Q(1)>>,
               draw_orders |-> <<Q(500)>>]>>,
        !.draw_order_groups = <<Span(0, 1)>>,
        !.draw_order_group_objects = <<DrawObject("ArtMesh", 0, U32Max)>>]

\* No art meshes: only the root draw-order group, which has no objects.
RootGroupTable ==
    [EmptyTable EXCEPT !.draw_order_groups = <<Span(0, 0)>>]

\* No art meshes: the warp deformer of WarpRotTable alone under the root.
WarpOnlyTable ==
    [WarpRotTable EXCEPT
        !.deformers = <<Deformer(0, 0, -1)>>,
        !.rotation_deformers = <<>>,
        !.art_meshes = <<>>,
        !.draw_order_groups = <<Span(0, 0)>>,
        !.draw_order_group_objects = <<>>]

\* Two warp deformers, the second a child of the first, whose
\* specific_sources_indices both name warp deformer 0.
SharedSpecificTable ==
    [WarpOnlyTable EXCEPT !.deformers = <<Deformer(0, 0, -1), Deformer(0, 0, 0)>>]

MocFile(magic, version, big_endian, intact, table) ==
    [magic |-> magic, version |-> version, big_endian |-> big_endian,
     intact |-> intact, table |-> table]

Files ==
    <<MocFile("MOC3", V4_00, 0, TRUE, ChainTable),
      MocFile("MOC3", V4_02, 0, TRUE, BlendTable),
      MocFile("MOC3", V3_03, 0, TRUE, WarpRotTable),
      MocFile("MOC3", V3_00, 1, TRUE, MeshTable),
      MocFile("MOC3", V3_00, 0, TRUE, FourAxisMeshTable),
      MocFile("MOC3", V3_03, 0, TRUE, FourAxisWarpTable),
      MocFile("MOC3", V3_03, 0, TRUE, ChildFirstTable),
      MocFile("MOC4", V3_00, 0, TRUE, MeshTable),
      MocFile("MOC3", 5, 0, TRUE, MeshTable),
      MocFile("MOC3", V3_00, 0, FALSE, MeshTable),
      MocFile("MOC3", V3_00, 0, TRUE, EmptyTable),
      MocFile("MOC3", V3_00, 0, TRUE, RootGroupTable),
      MocFile("MOC3", V3_03, 0, TRUE, WarpOnlyTable),
      MocFile("MOC3", V4_02, 0, TRUE, HeavyBlendTable),
      MocFile("MOC3", V3_03, 0, TRUE, CrossTable),
      MocFile("MOC3", V3_03, 0, TRUE, SharedSpecificTable)>>

----------------------------------------------------------------------------
\* lib.rs parse_puppet, data.rs Header: what cursor.read_le() accepts.  The
\* magic must be "MOC3", the version byte must be one of the enum's values
\* and every section must lie inside the file (intact); the big_endian byte
\* is read into the header and not looked at.
read_le(bytes) ==
    bytes.magic = "MOC3" /\ bytes.version \in Versions /\ bytes.intact

----------------------------------------------------------------------------
\* puppet/mod.rs puppet_from_moc3.  Every loop of the builder is a
\* recursive operator over an accumulator acc whose field panicked records
\* a failed unwrap, assert! or index.

Max(S) == CHOOSE x \in S : \A y \in S : y <= x

\* The parameter whose range [start, start + count) covers binding a last
\* (the loop overwrites), 0 when none does.
parameter_bindings_to_parameter(table) ==
    [a1 \in 1..Len(table.parameter_bindings) |->
        LET owners == {i \in 0..(Len(table.parameters) - 1) :
                        LET p == At(table.parameters, i)
                        IN  /\ p.parameter_binding_sources_start <= a1 - 1
                            /\ a1 - 1 < p.parameter_binding_sources_start
                                          + p.parameter_binding_sources_count}
        IN  IF owners = {} THEN 0 ELSE Max(owners)]

blend_shape_parameter_bindings_to_parameter(table) ==
    [a1 \in 1..Len(table.blend_shape_parameter_bindings) |->
        LET owners == {i \in 0..(Len(table.parameters) - 1) :
                        LET p == At(table.parameters, i)
                        IN  /\ p.parameter_type = "BlendShape"
                            /\ p.blend_shape_parameter_binding_sources_start <= a1 - 1
                            /\ a1 - 1 < p.blend_shape_parameter_binding_sources_start
                                          + p.blend_shape_parameter_binding_sources_count}
        IN  IF owners = {} THEN 0 ELSE Max(owners)]

\* parameter_bindings_to_parameter[a] = i with a past the end of the vector.
BindingMapPanics(table) ==
    \E i \in DOMAIN table.parameters :
        LET p == table.parameters[i]
        IN  \/ /\ p.parameter_binding_sources_count > 0
               /\ p.parameter_binding_sources_start + p.parameter_binding_sources_count
                    > Len(table.parameter_bindings)

\* One axis (keys, parameter) read through parameter_binding_indices[slot].
BindingAxis(table, slot) ==
    LET ind == At(table.parameter_binding_indices, slot)
    IN  [keys |-> At(table.parameter_bindings, ind).keys,
         param |-> At(parameter_bindings_to_parameter(table), ind)]

BindingAxisPanics(table, slot) ==
    \/ ~InBounds(table.parameter_binding_indices, slot)
    \/ ~InBounds(table.parameter_bindings, At(table.parameter_binding_indices, slot))

\* x_index, y_index and the two forms of z_index of the builder, for the
\* keyform binding kb = (parameter_bindings_start, parameter_bindings_count).
x_index(table, kb) ==
    IF kb.count >= 1 THEN Some(BindingAxis(table, kb.start)) ELSE None
y_index(table, kb) ==
    IF kb.count >= 2 THEN Some(BindingAxis(table, kb.start + 1)) ELSE None
\* warp and rotation deformers: parameter_bindings_count >= 3
z_index_deformer(table, kb) ==
    IF kb.count >= 3 THEN Some(BindingAxis(table, kb.start + 2)) ELSE None
\* art meshes and glues: parameter_bindings_count == 3
z_index_exact(table, kb) ==
    IF kb.count = 3 THEN Some(BindingAxis(table, kb.start + 2)) ELSE None

AxesPanic(table, kb, exact) ==
    \/ (kb.count >= 1 /\ BindingAxisPanics(table, kb.start))
    \/ (kb.count >= 2 /\ BindingAxisPanics(table, kb.start + 1))
    \/ ((IF exact THEN kb.count = 3 ELSE kb.count >= 3)
            /\ BindingAxisPanics(table, kb.start + 2))

\* assert!(parameter_bindings_count <= 3)
MaxBindings == 3

\* A ParamApplicator.  kind tags the ApplicatorKind variant; choices holds
\* the variant's keyform values (positions, grids, transforms or intensities).
\* target is not a field of the source struct: it records, for an applicator
\* pushed by collect_blend_shapes, the target_index the file names.
ParamApplicator(x, y, z, kind_index, kind, choices, opacities, draw_orders, blend, target) ==
    [x |-> x, y |-> y, z |-> z, kind_index |-> kind_index, kind |-> kind,
     choices |-> choices, opacities |-> opacities, draw_orders |-> draw_orders,
     blend |-> blend, target |-> target]

\* A DeformerNode in the arena.  Node ids are 1-based positions in the arena
\* (as indextree's NodeId); parent = 0 for a root.  ind is the second field
\* of NodeKind::WarpDeformer / RotationDeformer (-1 for an art mesh).
DeformerNode(kind, broad_index, ind, data) ==
    [kind |-> kind, broad_index |-> broad_index, ind |-> ind, data |-> data, parent |-> 0]

NoNodeData == [rows |-> 0, columns |-> 0, is_new_deformerr |-> FALSE,
               base_angle |-> Q(0), vertexes |-> 0]

\* deformer_indices_to_node_ids[parent].unwrap().append_value(..) or
\* node_arena.new_node(..) with node_roots.push(..)
AppendNode(acc, node, parent_deformer_index) ==
    LET id == Len(acc.nodes) + 1
    IN  IF parent_deformer_index # -1
        THEN [acc EXCEPT !.nodes = Append(@,
                [node EXCEPT !.parent = Unwrap(At(acc.ids, parent_deformer_index))])]
        ELSE [acc EXCEPT !.nodes = Append(@, node), !.node_roots = Append(@, id)]

AppendNodePanics(acc, parent_deformer_index) ==
    /\ parent_deformer_index # -1
    /\ \/ ~InBounds(acc.ids, parent_deformer_index)
       \/ ~IsSome(At(acc.ids, parent_deformer_index))

Panicked(acc) == [acc EXCEPT !.panicked = TRUE]


\* One iteration of `for i in 0..count_info.deformers` (0-based i).
BuildDeformer(read, i, acc) ==
    LET table == read.table
        d == At(table.deformers, i)
        specific == d.specific_sources_index
    IN  IF d.type = 0 THEN
            IF ~InBounds(table.warp_deformers, specific) THEN Panicked(acc)
            ELSE
            LET w == At(table.warp_deformers, specific)
                is_new_deformerr == IF read.version >= V3_03 THEN w.is_new_deformerr ELSE 0
                node == DeformerNode("WarpDeformer", i, specific,
                            [NoNodeData EXCEPT !.rows = w.rows, !.columns = w.columns,
                                               !.is_new_deformerr = (is_new_deformerr # 0)])
                binding_index == w.keyform_binding_sources_index
            IN  IF \/ AppendNodePanics(acc, d.parent_deformer_index)
                   \/ ~InBounds(table.keyform_bindings, binding_index)
                THEN Panicked(acc)
                ELSE
                LET kb == At(table.keyform_bindings, binding_index)
                    appended == AppendNode(acc, node, d.parent_deformer_index)
                IN  IF kb.count > MaxBindings \/ AxesPanic(table, kb, FALSE)
                    THEN Panicked(acc)
                    ELSE [appended EXCEPT
                            !.ids[i + 1] = Some(Len(acc.nodes) + 1),
                            !.applicators = Append(@,
                                ParamApplicator(x_index(table, kb), y_index(table, kb),
                                    z_index_deformer(table, kb), specific, "WarpDeformer",
                                    w.grids, w.opacities, <<>>, None, specific))]
        ELSE IF d.type = 1 THEN
            IF ~InBounds(table.rotation_deformers, specific) THEN Panicked(acc)
            ELSE
            LET r == At(table.rotation_deformers, specific)
                node == DeformerNode("RotationDeformer", i, specific,
                            [NoNodeData EXCEPT !.base_angle = r.base_angle])
                binding_index == r.keyform_binding_sources_index
            IN  IF \/ AppendNodePanics(acc, d.parent_deformer_index)
                   \/ ~InBounds(table.keyform_bindings, binding_index)
                THEN Panicked(acc)
                ELSE
                LET kb == At(table.keyform_bindings, binding_index)
                    appended == AppendNode(acc, node, d.parent_deformer_index)
                IN  IF kb.count > MaxBindings \/ AxesPanic(table, kb, FALSE)
                    THEN Panicked(acc)
                    ELSE [appended EXCEPT
                            !.ids[i + 1] = Some(Len(acc.nodes) + 1),
                            !.applicators = Append(@,
                                ParamApplicator(x_index(table, kb), y_index(table, kb),
                                    z_index_deformer(table, kb), specific, "RotationDeformer",
                                    r.transforms, r.opacities, <<>>, None, specific))]
        ELSE acc

RECURSIVE BuildDeformers(_, _, _)
BuildDeformers(read, i, acc) ==
    IF acc.panicked \/ i >= Len(read.table.deformers) THEN acc
    ELSE Eval({BuildDeformers(read, i + 1, next) : next \in {BuildDeformer(read, i, acc)}})

\* One iteration of `for i in 0..count_info.art_meshes`.
BuildArtMesh(read, i, acc) ==
    LET table == read.table
        m == At(table.art_meshes, i)
        binding_index == m.keyform_binding_sources_index
        node == DeformerNode("ArtMesh", i, -1, [NoNodeData EXCEPT !.vertexes = m.vertex_count])
    IN  IF \/ AppendNodePanics(acc, m.parent_deformer_index)
           \/ ~InBounds(table.keyform_bindings, binding_index)
        THEN Panicked(acc)
        ELSE
        LET kb == At(table.keyform_bindings, binding_index)
            appended == AppendNode(acc, node, m.parent_deformer_index)
        IN  IF AxesPanic(table, kb, TRUE) THEN Panicked(acc)
            ELSE [appended EXCEPT
                    !.applicators = Append(@,
                        ParamApplicator(x_index(table, kb), y_index(table, kb),
                            z_index_exact(table, kb), i, "ArtMesh",
                            m.positions, m.opacities, m.draw_orders, None, i))]

RECURSIVE BuildArtMeshes(_, _, _)
BuildArtMeshes(read, i, acc) ==
    IF acc.panicked \/ i >= Len(read.table.art_meshes) THEN acc
    ELSE Eval({BuildArtMeshes(read, i + 1, next) : next \in {BuildArtMesh(read, i, acc)}})

GlueNode(kind_index, art_mesh_index, mesh_indices, weights) ==
    [kind_index |-> kind_index, art_mesh_index |-> art_mesh_index,
     mesh_indices |-> mesh_indices, weights |-> weights]

\* One iteration of `for i in 0..count_info.glues`.
BuildGlue(read, i, acc) ==
    LET table == read.table
        g == At(table.glues, i)
        binding_index == g.keyform_binding_sources_index
    IN  IF ~InBounds(table.keyform_bindings, binding_index) THEN Panicked(acc)
        ELSE
        LET kb == At(table.keyform_bindings, binding_index)
        IN  IF kb.count > MaxBindings \/ AxesPanic(table, kb, TRUE) THEN Panicked(acc)
            ELSE [acc EXCEPT
                    !.glue_nodes = Append(@,
                        GlueNode(i, <<g.art_mesh_index_a, g.art_mesh_index_b>>,
                                 g.vertex_indices, g.weights)),
                    !.applicators = Append(@,
                        ParamApplicator(x_index(table, kb), y_index(table, kb),
                            z_index_exact(table, kb), i, "Glue",
                            g.intensities, <<>>, <<>>, None, i))]

RECURSIVE BuildGlues(_, _, _)
BuildGlues(read, i, acc) ==
    IF acc.panicked \/ i >= Len(read.table.glues) THEN acc
    ELSE Eval({BuildGlues(read, i + 1, next) : next \in {BuildGlue(read, i, acc)}})


\* The (i, a) pairs visited by `for i in 0..n { for a in start..start + count`.
SpanPairs(spans) ==
    Flatten([i \in 1..Len(spans) |->
                [j \in 1..spans[i].count |-> [i |-> i - 1, a |-> spans[i].start + j - 1]]])

\* One blend-shape keyform binding a of blend shape i on an art mesh or a
\* warp deformer: the applicator collect_blend_shapes pushes for it.
BlendApplicator(table, kind, shapes, pair) ==
    LET kb == At(table.blend_shape_keyform_bindings, pair.a)
        param_binding_index == kb.blend_shape_parameter_binding_sources_index
        x == [keys |-> At(table.blend_shape_parameter_bindings, param_binding_index).keys,
              param |-> At(blend_shape_parameter_bindings_to_parameter(table),
                           param_binding_index)]
    IN  ParamApplicator(Some(x), None, None, pair.i, kind,
            kb.positions, kb.opacities,
            IF kind = "ArtMesh" THEN kb.draw_orders ELSE <<>>,
            Some(kb.constraints), At(shapes, pair.i).target_index)

BlendApplicatorPanics(table, targets, shapes, pair) ==
    \/ ~InBounds(targets, At(shapes, pair.i).target_index)
    \/ ~InBounds(table.blend_shape_keyform_bindings, pair.a)
    \/ ~InBounds(table.blend_shape_parameter_bindings,
            At(table.blend_shape_keyform_bindings, pair.a)
                .blend_shape_parameter_binding_sources_index)

RECURSIVE BlendLoop(_, _, _, _, _, _)
BlendLoop(table, kind, targets, shapes, pairs, acc) ==
    IF acc.panicked \/ pairs = <<>> THEN acc
    ELSE Eval({BlendLoop(table, kind, targets, shapes, rest, next) :
                rest \in {Tail(pairs)},
                next \in {IF BlendApplicatorPanics(table, targets, shapes, Head(pairs))
                          THEN Panicked(acc)
                          ELSE [acc EXCEPT !.applicators =
                                  Append(@, BlendApplicator(table, kind, shapes,
                                                            Head(pairs)))]}})

collect_blend_shapes(read, acc) ==
    IF read.version < V4_02 THEN acc
    ELSE LET table == read.table
         IN  Eval({BlendLoop(table, "WarpDeformer", table.warp_deformers,
                        table.blend_shape_warp_deformers,
                        SpanPairs(table.blend_shape_warp_deformers), meshes) :
                    meshes \in {BlendLoop(table, "ArtMesh", table.art_meshes,
                                    table.blend_shape_art_meshes,
                                    SpanPairs(table.blend_shape_art_meshes), acc)}})

\* A builder that collects the blend shapes before the deformers, art
\* meshes and glues; kept beside BuildApplicators to compare applicator
\* orders.
BlendShapesFirst(read, acc) ==
    Eval({BuildGlues(read, 0, a3) :
            a3 \in {Eval({BuildArtMeshes(read, 0, a2) :
                a2 \in {Eval({BuildDeformers(read, 0, a1) :
                    a1 \in {collect_blend_shapes(read, acc)}})}})}})

\* BEGIN PARAMETER STUFF .. END PARAMETER STUFF, then collect_blend_shapes.
BuildApplicators(read, acc) ==
    Eval({collect_blend_shapes(read, a3) :
            a3 \in {Eval({BuildGlues(read, 0, a2) :
                a2 \in {Eval({BuildArtMeshes(read, 0, a1) :
                    a1 \in {BuildDeformers(read, 0, acc)}})}})}})

\* The draw-order tree.  A DrawOrderNode in the arena has 1-based ids and
\* parent = 0 for the root; roots is draw_order_roots (Options).
DrawOrderNode(kind, index, parent) == [kind |-> kind, index |-> index, parent |-> parent]

DrawOrderStep(table, pair, acc) ==
    IF ~InBounds(table.draw_order_group_objects, pair.a) \/ ~IsSome(At(acc.roots, pair.i))
    THEN Panicked(acc)
    ELSE LET o == At(table.draw_order_group_objects, pair.a)
             to_append == DrawOrderNode(IF o.type = "ArtMesh" THEN "ArtMesh" ELSE "Part",
                                        o.index, Unwrap(At(acc.roots, pair.i)))
             res == Len(acc.nodes) + 1
         IN  IF o.self_index # U32Max
             THEN IF ~InBounds(acc.roots, o.self_index) THEN Panicked(acc)
                  ELSE [acc EXCEPT !.nodes = Append(@, to_append),
                                   !.roots[o.self_index + 1] = Some(res)]
             ELSE [acc EXCEPT !.nodes = Append(@, to_append)]

RECURSIVE DrawOrderLoop(_, _, _)
DrawOrderLoop(table, pairs, acc) ==
    IF acc.panicked \/ pairs = <<>> THEN acc
    ELSE Eval({DrawOrderLoop(table, rest, next) :
                rest \in {Tail(pairs)}, next \in {DrawOrderStep(table, Head(pairs), acc)}})

BuildDrawOrder(table) ==
    IF table.draw_order_groups = <<>>
    THEN [nodes |-> <<>>, roots |-> <<>>, panicked |-> TRUE]
    ELSE Eval({IF \E i \in DOMAIN built.roots : ~IsSome(built.roots[i])
               THEN Panicked(built) ELSE built :
            built \in {DrawOrderLoop(table, SpanPairs(table.draw_order_groups),
                        [nodes |-> <<DrawOrderNode("Part", U32Max, 0)>>,
                         roots |-> [i \in 1..Len(table.draw_order_groups) |->
                                        IF i = 1 THEN Some(1) ELSE None],
                         panicked |-> FALSE])}})

NoPuppet ==
    [nodes |-> <<>>, node_roots |-> <<>>, glue_nodes |-> <<>>, params |-> <<>>,
     applicators |-> <<>>, art_mesh_count |-> 0, vertexes_count |-> <<>>,
     draw_order_nodes |-> <<>>, draw_order_roots |-> <<>>]

\* Returns [panicked, puppet].
puppet_from_moc3(read) ==
    LET table == read.table
    IN  Eval({
        IF built.panicked \/ order.panicked
        THEN [panicked |-> TRUE, puppet |-> NoPuppet]
        ELSE [panicked |-> FALSE,
              puppet |->
                [nodes |-> built.nodes, node_roots |-> built.node_roots,
                 glue_nodes |-> built.glue_nodes,
                 params |-> [i \in DOMAIN table.parameters |-> table.parameters[i].default],
                 applicators |-> built.applicators,
                 art_mesh_count |-> Len(table.art_meshes),
                 vertexes_count |-> [i \in DOMAIN table.art_meshes |->
                                        table.art_meshes[i].vertex_count],
                 draw_order_nodes |-> order.nodes,
                 draw_order_roots |-> [i \in DOMAIN order.roots |-> Unwrap(order.roots[i])]]]
        : built \in {BuildApplicators(read,
                        [nodes |-> <<>>, node_roots |-> <<>>,
                         ids |-> [i \in 1..Len(table.deformers) |-> None],
                         applicators |-> <<>>, glue_nodes |-> <<>>,
                         panicked |-> BindingMapPanics(table)])},
          order \in {BuildDrawOrder(table)}})

\* lib.rs parse_puppet: Err(ParseError) when read_le fails, otherwise
\* Ok(puppet_from_moc3(&read)), which may panic.
parse_puppet(bytes) ==
    IF ~read_le(bytes) THEN [result |-> "err", puppet |-> NoPuppet]
    ELSE Eval({[result |-> IF built.panicked THEN "panic" ELSE "ok",
                puppet |-> built.puppet] : built \in {puppet_from_moc3(bytes)}})

----------------------------------------------------------------------------
\* puppet/mod.rs BlendColor, PuppetFrameData

Vec3(x, y, z) == <<x, y, z>>
Add3(a, b) == <<RAdd(a[1], b[1]), RAdd(a[2], b[2]), RAdd(a[3], b[3])>>
Sub3(a, b) == <<RSub(a[1], b[1]), RSub(a[2], b[2]), RSub(a[3], b[3])>>
Mul3(a, b) == <<RMul(a[1], b[1]), RMul(a[2], b[2]), RMul(a[3], b[3])>>

BlendColor(multiply_color, screen_color) ==
    [multiply_color |-> multiply_color, screen_color |-> screen_color]

\* impl Default for BlendColor
BlendColorDefault == BlendColor(Vec3(Q(1), Q(1), Q(1)), Vec3(Q(0), Q(0), Q(0)))

\* BlendColor::blend
blend(self, child) ==
    BlendColor(Mul3(self.multiply_color, child.multiply_color),
               Sub3(Add3(self.screen_color, child.screen_color),
                    Mul3(self.screen_color, child.screen_color)))

Repeat(x, n) == [i \in 1..n |-> x]

\* A color buffer of a freshly constructed frame data: one
\* BlendColor::default() per entity.
FreshColors(n) == Repeat(BlendColorDefault, n)

\* The frame data as the program constructs it from the file's counts.
FreshFrame(table) ==
    [art_mesh_data |-> Repeat(<<>>, Len(table.art_meshes)),
     warp_deformer_data |-> Repeat(<<>>, Len(table.warp_deformers)),
     rotation_deformer_data |->
        Repeat(TransformData(VQ(0, 0), Q(0), Q(0)), Len(table.rotation_deformers)),
     glue_data |-> Repeat(Q(0), Len(table.glues)),
     art_mesh_render_orders |-> Repeat(0, Len(table.art_meshes)),
     art_mesh_draw_orders |-> Repeat(Q(500), Len(table.art_meshes)),
     deformer_scale_data |-> Repeat(Q(1), Len(table.deformers)),
     art_mesh_opacities |-> Repeat(Q(1), Len(table.art_meshes)),
     warp_deformer_opacities |-> Repeat(Q(1), Len(table.warp_deformers)),
     rotation_deformer_opacities |-> Repeat(Q(1), Len(table.rotation_deformers)),
     art_mesh_colors |-> FreshColors(Len(table.art_meshes)),
     warp_deformer_colors |-> FreshColors(Len(table.warp_deformers)),
     rotation_deformer_colors |-> FreshColors(Len(table.rotation_deformers))]

NoFrame == FreshFrame(EmptyTable)

----------------------------------------------------------------------------
\* puppet/applicator.rs ParamApplicator::apply

VecLanes(choices) == [i \in DOMAIN choices |-> cast_slice(choices[i])]
TransformLanes(choices) ==
    [i \in DOMAIN choices |->
        <<choices[i].origin[1], choices[i].origin[2], choices[i].scale, choices[i].angle>>]

RECURSIVE LowestWeight(_, _, _)
LowestWeight(constraints, parameters, lowest_weight) ==
    IF constraints = <<>> THEN lowest_weight
    ELSE LowestWeight(Tail(constraints), parameters,
            RMin(lowest_weight, process(Head(constraints), parameters)))

\* for (change, diff) in art_mesh_data[ind].iter_mut().zip(data) { *change += diff * w }
ZipAdd(changes, data, lowest_weight) ==
    [j \in DOMAIN changes |->
        IF j <= Len(data) THEN VAdd(changes[j], VScale(data[j], lowest_weight))
        ELSE changes[j]]

ApplyPanics(app, parameters, frame_data) ==
    LET ind == app.kind_index
    IN  CASE app.kind = "ArtMesh" ->
                \/ InterpolatePanics(app, parameters, VecLanes(app.choices))
                \/ ~InBounds(frame_data.art_mesh_data, ind)
                \/ IF IsSome(app.blend)
                   THEN \E c \in Range(Unwrap(app.blend)) : ConstraintPanics(c, parameters)
                   ELSE \/ InterpolatePanics(app, parameters, Singles(app.draw_orders))
                        \/ InterpolatePanics(app, parameters, Singles(app.opacities))
                        \/ ~InBounds(frame_data.art_mesh_draw_orders, ind)
                        \/ ~InBounds(frame_data.art_mesh_opacities, ind)
          [] app.kind = "WarpDeformer" ->
                \/ InterpolatePanics(app, parameters, VecLanes(app.choices))
                \/ InterpolatePanics(app, parameters, Singles(app.opacities))
                \/ ~InBounds(frame_data.warp_deformer_opacities, ind)
                \/ ~InBounds(frame_data.warp_deformer_data, ind)
          [] app.kind = "RotationDeformer" ->
                \/ InterpolatePanics(app, parameters, Singles(app.opacities))
                \/ InterpolatePanics(app, parameters, TransformLanes(app.choices))
                \/ ~InBounds(frame_data.rotation_deformer_opacities, ind)
                \/ ~InBounds(frame_data.rotation_deformer_data, ind)
          [] app.kind = "Glue" ->
                \/ app.choices = <<>>
                \/ ~InBounds(frame_data.glue_data, ind)

apply(app, parameters, frame_data) ==
    LET i1 == app.kind_index + 1
    IN  CASE app.kind = "ArtMesh" ->
                LET data == cast_vec(Interpolate(app, parameters, VecLanes(app.choices)))
                IN  IF IsSome(app.blend)
                    THEN [frame_data EXCEPT !.art_mesh_data[i1] =
                            ZipAdd(@, data, LowestWeight(Unwrap(app.blend), parameters, Q(1)))]
                    ELSE [frame_data EXCEPT
                            !.art_mesh_data[i1] = data,
                            !.art_mesh_draw_orders[i1] =
                                Interpolate(app, parameters, Singles(app.draw_orders))[1],
                            !.art_mesh_opacities[i1] =
                                Interpolate(app, parameters, Singles(app.opacities))[1]]
          [] app.kind = "WarpDeformer" ->
                [frame_data EXCEPT
                    !.warp_deformer_opacities[i1] =
                        Interpolate(app, parameters, Singles(app.opacities))[1],
                    !.warp_deformer_data[i1] =
                        cast_vec(Interpolate(app, parameters, VecLanes(app.choices)))]
          [] app.kind = "RotationDeformer" ->
                LET res == Interpolate(app, parameters, TransformLanes(app.choices))
                IN  [frame_data EXCEPT
                        !.rotation_deformer_opacities[i1] =
                            Interpolate(app, parameters, Singles(app.opacities))[1],
                        !.rotation_deformer_data[i1] =
                            TransformData(<<res[1], res[2]>>, res[3], res[4])]
          [] app.kind = "Glue" ->
                [frame_data EXCEPT !.glue_data[i1] =
                    At(app.choices, Len(app.choices) \div 2)]

----------------------------------------------------------------------------
\* puppet/mod.rs Puppet::update: the deformer tree walk

RECURSIVE Ascending(_)
Ascending(S) ==
    IF S = {} THEN <<>>
    ELSE LET m == CHOOSE x \in S : \A y \in S : x <= y
         IN  <<m>> \o Ascending(S \ {m})

\* id.children(): the nodes appended under id, in append order.
Children(nodes, id) == Ascending({c \in DOMAIN nodes : nodes[c].parent = id})

\* id.descendants(): id, then its subtree in pre-order.
RECURSIVE Descendants(_, _)
Descendants(nodes, id) ==
    LET kids == Children(nodes, id)
    IN  <<id>> \o Flatten([j \in DOMAIN kids |-> Descendants(nodes, kids[j])])

\* The child ids the two nested loops of the walk visit, in order.
Edges(p) ==
    Flatten([r \in DOMAIN p.node_roots |-> Tail(Descendants(p.nodes, p.node_roots[r]))])

\* A propagation that adds the parent's opacity.
PropagateSum(child_opacity, parent_opacity) == RAdd(child_opacity, parent_opacity)
\* `*child_opacity *= parent_opacity`
PropagateOpacity(child_opacity, parent_opacity) == RMul(child_opacity, parent_opacity)

\* A scale that multiplies by the child's own slot of deformer_scale_data,
\* which holds what the previous call left there.
OwnScale(child, parent, frame_data) ==
    RMul(At(frame_data.rotation_deformer_data, child.ind).scale,
         At(frame_data.deformer_scale_data, child.broad_index))
\* The scale a rotation-deformer child takes: its interpolated scale times
\* deformer_scale_data[parent.broad_index].
ChildScale(child, parent, frame_data) ==
    RMul(At(frame_data.rotation_deformer_data, child.ind).scale,
         At(frame_data.deformer_scale_data, parent.broad_index))

\* The writes of the child arm of the match that happen before the parent
\* is applied (deformer_scale_data, and the rotation child's scale).
WalkScale(child, parent, frame_data) ==
    CASE child.kind = "ArtMesh" -> frame_data
      [] child.kind = "WarpDeformer" ->
            [frame_data EXCEPT !.deformer_scale_data[child.broad_index + 1] =
                At(frame_data.deformer_scale_data, parent.broad_index)]
      [] child.kind = "RotationDeformer" ->
            LET scale == ChildScale(child, parent, frame_data)
            IN  [frame_data EXCEPT
                    !.rotation_deformer_data[child.ind + 1].scale = scale,
                    !.deformer_scale_data[child.broad_index + 1] = scale]

\* child_changes and child_opacity of the child arm.
ChildChanges(child, frame_data) ==
    CASE child.kind = "ArtMesh" -> At(frame_data.art_mesh_data, child.broad_index)
      [] child.kind = "WarpDeformer" -> At(frame_data.warp_deformer_data, child.ind)
      [] child.kind = "RotationDeformer" ->
            <<At(frame_data.rotation_deformer_data, child.ind).origin>>

ChildOpacity(child, frame_data) ==
    CASE child.kind = "ArtMesh" -> At(frame_data.art_mesh_opacities, child.broad_index)
      [] child.kind = "WarpDeformer" -> At(frame_data.warp_deformer_opacities, child.ind)
      [] child.kind = "RotationDeformer" ->
            At(frame_data.rotation_deformer_opacities, child.ind)

\* The color slot the child arm takes: [buffer, index].  The rotation arm
\* offsets rotation_deformer_colors by child.broad_index.
ChildColorSlot(child) ==
    CASE child.kind = "ArtMesh" -> <<"art_mesh_colors", child.broad_index>>
      [] child.kind = "WarpDeformer" -> <<"warp_deformer_colors", child.ind>>
      [] child.kind = "RotationDeformer" ->
            <<"rotation_deformer_colors", child.broad_index>>

\* The slots of the frame data the child arm takes by `&mut` and the walk
\* assigns: [buffer, index] pairs.
WalkWrites(child) ==
    CASE child.kind = "ArtMesh" ->
            {<<"art_mesh_data", child.broad_index>>,
             <<"art_mesh_opacities", child.broad_index>>, ChildColorSlot(child)}
      [] child.kind = "WarpDeformer" ->
            {<<"deformer_scale_data", child.broad_index>>,
             <<"warp_deformer_data", child.ind>>,
             <<"warp_deformer_opacities", child.ind>>, ChildColorSlot(child)}
      [] child.kind = "RotationDeformer" ->
            {<<"deformer_scale_data", child.broad_index>>,
             <<"rotation_deformer_data", child.ind>>,
             <<"rotation_deformer_opacities", child.ind>>, ChildColorSlot(child)}

\* The slots the parent arm reads of the parent: its grid or transform, its
\* opacity, its color, and its entry of deformer_scale_data.
ParentReads(parent) ==
    IF parent.kind = "WarpDeformer"
    THEN {<<"deformer_scale_data", parent.broad_index>>,
          <<"warp_deformer_data", parent.ind>>,
          <<"warp_deformer_opacities", parent.ind>>,
          <<"warp_deformer_colors", parent.ind>>}
    ELSE {<<"deformer_scale_data", parent.broad_index>>,
          <<"rotation_deformer_data", parent.ind>>,
          <<"rotation_deformer_opacities", parent.ind>>,
          <<"rotation_deformer_colors", parent.ind>>}

\* The child's `&mut` grid and the parent's `&` grid are one element of
\* warp_deformer_data: both nodes are warp deformers with the same specific
\* index, which the assertion on (kind, broad_index) lets through.
WalkAliases(child, parent) ==
    /\ child.kind = "WarpDeformer" /\ parent.kind = "WarpDeformer"
    /\ child.ind = parent.ind

\* What a build makes of the loop of apply_warp_deformer when
\* points_to_transform is the grid itself: every point is looked up in the
\* grid as it was before the call, or in the grid as the loop has written it
\* so far.
Builds == {"snapshot", "in_place"}

RECURSIVE warp_in_place(_, _, _, _, _)
warp_in_place(grid, is_new_deformer, rows, columns, i) ==
    IF i > Len(grid) THEN grid
    ELSE warp_in_place([grid EXCEPT ![i] =
                            WarpPoint(grid, is_new_deformer, rows, columns, grid[i])],
                       is_new_deformer, rows, columns, i + 1)

\* The parent arm: child_changes after apply_warp_deformer /
\* apply_rotation_deformer, and (parent_opacity, parent_color).
ApplyParent(parent, frame_data, child_changes) ==
    IF parent.kind = "WarpDeformer"
    THEN apply_warp_deformer(At(frame_data.warp_deformer_data, parent.ind),
            parent.data.is_new_deformerr, parent.data.rows, parent.data.columns,
            child_changes)
    ELSE apply_rotation_deformer(At(frame_data.rotation_deformer_data, parent.ind),
            parent.data.base_angle, child_changes)

ParentOpacity(parent, frame_data) ==
    IF parent.kind = "WarpDeformer"
    THEN At(frame_data.warp_deformer_opacities, parent.ind)
    ELSE At(frame_data.rotation_deformer_opacities, parent.ind)

ParentColor(parent, frame_data) ==
    IF parent.kind = "WarpDeformer"
    THEN At(frame_data.warp_deformer_colors, parent.ind)
    ELSE At(frame_data.rotation_deformer_colors, parent.ind)

\* assert_ne!, unreachable!, an index past deformer_scale_data, a grid
\* shorter than (rows + 1) * (columns + 1), the unreachable! of the warp.
WalkPanics(p, child_id, frame_data) ==
    LET child == p.nodes[child_id]
        parent == p.nodes[child.parent]
    IN  \/ (child.kind = parent.kind /\ child.broad_index = parent.broad_index)
        \/ parent.kind = "ArtMesh"
        \/ /\ child.kind # "ArtMesh"
           /\ \/ ~InBounds(frame_data.deformer_scale_data, parent.broad_index)
              \/ ~InBounds(frame_data.deformer_scale_data, child.broad_index)
        \/ /\ parent.kind = "WarpDeformer"
           /\ \/ Len(At(frame_data.warp_deformer_data, parent.ind))
                    < (parent.data.rows + 1) * (parent.data.columns + 1)
              \/ \E pt \in Range(ChildChanges(child, frame_data)) : WarpPointPanics(pt)

\* The child's color slot lies past the end of its buffer: the reference the
\* child arm builds from the raw pointer is out of bounds.
WalkStrays(p, child_id, frame_data) ==
    LET slot == ChildColorSlot(p.nodes[child_id])
    IN  ~InBounds(frame_data[slot[1]], slot[2])

\* One iteration of the walk on an edge (parent of child_id, child_id), for
\* every write that lands inside the frame data.
WalkEdge(p, child_id, frame_data) ==
    LET child == p.nodes[child_id]
        parent == p.nodes[child.parent]
        slot == ChildColorSlot(child)
        Moved(scaled, changes, opacity) ==
            CASE child.kind = "ArtMesh" ->
                    [scaled EXCEPT !.art_mesh_data[child.broad_index + 1] = changes,
                                   !.art_mesh_opacities[child.broad_index + 1] = opacity]
              [] child.kind = "WarpDeformer" ->
                    [scaled EXCEPT !.warp_deformer_data[child.ind + 1] = changes,
                                   !.warp_deformer_opacities[child.ind + 1] = opacity]
              [] child.kind = "RotationDeformer" ->
                    [scaled EXCEPT !.rotation_deformer_data[child.ind + 1].origin = changes[1],
                                   !.rotation_deformer_opacities[child.ind + 1] = opacity]
        Colored(moved) ==
            IF InBounds(moved[slot[1]], slot[2])
            THEN [moved EXCEPT ![slot[1]][slot[2] + 1] =
                    blend(ParentColor(parent, moved), At(moved[slot[1]], slot[2]))]
            ELSE moved
    IN  Eval({Eval({Colored(moved) :
                moved \in {Eval({Moved(scaled, changes, opacity) :
                    changes \in {IF WalkAliases(child, parent) /\ build = "in_place"
                                 THEN warp_in_place(ChildChanges(child, scaled),
                                        parent.data.is_new_deformerr, parent.data.rows,
                                        parent.data.columns, 1)
                                 ELSE ApplyParent(parent, scaled,
                                                  ChildChanges(child, scaled))},
                    opacity \in {PropagateOpacity(ChildOpacity(child, scaled),
                                                  ParentOpacity(parent, scaled))}})}}) :
            scaled \in {WalkScale(child, parent, frame_data)}})

----------------------------------------------------------------------------
\* puppet/mod.rs Puppet::update: the glue pass

GluePassPanics(glue, frame_data) ==
    \/ glue.art_mesh_index[1] = glue.art_mesh_index[2]
    \/ ~InBounds(frame_data.glue_data, glue.kind_index)
    \/ /\ InBounds(frame_data.art_mesh_data, glue.art_mesh_index[1])
       /\ InBounds(frame_data.art_mesh_data, glue.art_mesh_index[2])
       /\ GluePanics(glue.mesh_indices, glue.weights,
                At(frame_data.art_mesh_data, glue.art_mesh_index[1]),
                At(frame_data.art_mesh_data, glue.art_mesh_index[2]))

\* art_mesh_ptr.add(index) past the end of art_mesh_data.
GluePassStrays(glue, frame_data) ==
    \/ ~InBounds(frame_data.art_mesh_data, glue.art_mesh_index[1])
    \/ ~InBounds(frame_data.art_mesh_data, glue.art_mesh_index[2])

GluePass(glue, frame_data) ==
    LET res == apply_glue(At(frame_data.glue_data, glue.kind_index),
                    glue.mesh_indices, glue.weights,
                    At(frame_data.art_mesh_data, glue.art_mesh_index[1]),
                    At(frame_data.art_mesh_data, glue.art_mesh_index[2]))
    IN  [frame_data EXCEPT !.art_mesh_data[glue.art_mesh_index[1] + 1] = res[1],
                           !.art_mesh_data[glue.art_mesh_index[2] + 1] = res[2]]

----------------------------------------------------------------------------
\* puppet/draw_order.rs

\* A key that keeps the fraction of the draw order.
OrderKeyUnrounded(nodes, id, frame_data) ==
    IF nodes[id].kind = "ArtMesh"
    THEN At(frame_data.art_mesh_draw_orders, nodes[id].index)
    ELSE Q(500)

\* The sort key of a child: round(draw order) of an art mesh, 500 for a part.
OrderKey(nodes, id, frame_data) ==
    IF nodes[id].kind = "ArtMesh"
    THEN RRound(At(frame_data.art_mesh_draw_orders, nodes[id].index))
    ELSE Q(500)

\* orders after sort_unstable_by: ascending key, ties by NodeId.
RECURSIVE SortOrders(_, _, _)
SortOrders(nodes, S, frame_data) ==
    IF S = {} THEN <<>>
    ELSE LET first == CHOOSE a \in S : \A b \in S :
                        \/ RLt(OrderKey(nodes, a, frame_data), OrderKey(nodes, b, frame_data))
                        \/ /\ OrderKey(nodes, a, frame_data) = OrderKey(nodes, b, frame_data)
                           /\ a <= b
         IN  <<first>> \o SortOrders(nodes, S \ {first}, frame_data)

\* A cursor that stays where it is after an art mesh is emitted.
SameIndex(cur_index) == cur_index
\* `*cur_index += 1`
NextIndex(cur_index) == cur_index + 1

\* st = [cur_index, frame_data, panicked]
RECURSIVE draw_order_tree_rec(_, _, _), EmitOrders(_, _, _)
draw_order_tree_rec(nodes, draw_order_root, st) ==
    LET kids == {c \in DOMAIN nodes : nodes[c].parent = draw_order_root}
    IN  IF \E c \in kids : /\ nodes[c].kind = "ArtMesh"
                           /\ ~InBounds(st.frame_data.art_mesh_draw_orders, nodes[c].index)
        THEN [st EXCEPT !.panicked = TRUE]
        ELSE Eval({EmitOrders(nodes, orders, st) :
                    orders \in {SortOrders(nodes, kids, st.frame_data)}})

EmitOrders(nodes, orders, st) ==
    IF st.panicked \/ orders = <<>> THEN st
    ELSE LET id == Head(orders)
             child == nodes[id]
         IN  Eval({EmitOrders(nodes, rest, next) :
                rest \in {Tail(orders)},
                next \in {
                    IF child.kind = "ArtMesh"
                    THEN IF InBounds(st.frame_data.art_mesh_render_orders, st.cur_index)
                         THEN [st EXCEPT
                                !.frame_data.art_mesh_render_orders[st.cur_index + 1] =
                                    child.index,
                                !.cur_index = NextIndex(@)]
                         ELSE [st EXCEPT !.panicked = TRUE]
                    ELSE draw_order_tree_rec(nodes, id, st)}})

draw_order_tree(nodes, draw_order_root, frame_data) ==
    draw_order_tree_rec(nodes, draw_order_root,
        [cur_index |-> 0, frame_data |-> frame_data, panicked |-> FALSE])

----------------------------------------------------------------------------
\* Puppet::update as one function of (puppet, parameter_values, frame_data),
\* for calls that neither panic nor write outside the frame data.

RECURSIVE ApplyFrom(_, _, _)
ApplyFrom(applicators, parameter_values, frame_data) ==
    IF applicators = <<>> THEN frame_data
    ELSE Eval({ApplyFrom(rest, parameter_values, next) :
                rest \in {Tail(applicators)},
                next \in {apply(Head(applicators), parameter_values, frame_data)}})

RECURSIVE WalkFrom(_, _, _)
WalkFrom(p, edges, frame_data) ==
    IF edges = <<>> THEN frame_data
    ELSE Eval({WalkFrom(p, rest, next) :
                rest \in {Tail(edges)}, next \in {WalkEdge(p, Head(edges), frame_data)}})

RECURSIVE GlueFrom(_, _)
GlueFrom(glue_nodes, frame_data) ==
    IF glue_nodes = <<>> THEN frame_data
    ELSE Eval({GlueFrom(rest, next) :
                rest \in {Tail(glue_nodes)}, next \in {GluePass(Head(glue_nodes), frame_data)}})

update(p, parameter_values, frame_data) ==
    Eval({draw_order_tree(p.draw_order_nodes, p.draw_order_roots[1], glued).frame_data :
        glued \in {Eval({GlueFrom(p.glue_nodes, walked) :
            walked \in {Eval({WalkFrom(p, edges, applied) :
                edges \in {Edges(p)},
                applied \in {ApplyFrom(p.applicators, parameter_values, frame_data)}})}})}})

----------------------------------------------------------------------------
\* The program: parse_puppet on one of the files, the frame data built for
\* the puppet, then update calls, each taken one loop iteration at a time.

MaxUpdates == 2

\* Values a caller passes for one parameter; every parameter of the files
\* has the range [0, 1], so 2 lies outside it.
PVals == {Q(0), Half, Q(1), Q(2)}
ParamVectors(n) == [1..n -> PVals]

\* What the bytes past the end of a buffer may hold when they are read as a
\* BlendColor, and whether the access is caught by the memory system.
StrayReads == {BlendColorDefault, BlendColor(Vec3(Q(0), Q(0), Q(0)), Vec3(Q(1), Q(1), Q(1)))}
\* The access either is caught, or reads and writes memory that is no part of
\* the frame data, or reads and writes the first slot of the buffer allocated
\* next to the one overrun (then what it reads is what that slot holds).
StrayLands == {"outside", "art_mesh_colors"}
StrayOutcomes ==
    {[fault |-> TRUE, read |-> BlendColorDefault, lands |-> "outside"]}
        \cup {[fault |-> FALSE, read |-> c, lands |-> "outside"] : c \in StrayReads}
        \cup {[fault |-> FALSE, read |-> BlendColorDefault, lands |-> "art_mesh_colors"]}

\* No kernel function has been called, and no Pendulum has been constructed.
NoCall ==
    [fn |-> "none"]

NoPendulum ==
    [points |-> <<>>]

NoGlueCall == [intensity |-> Q(0), positions |-> <<>>, weights |-> <<>>,
               art_mesh_one |-> <<>>, art_mesh_two |-> <<>>]

LogEntry(pass, kind, index, blended, target) ==
    [pass |-> pass, kind |-> kind, index |-> index, blended |-> blended, target |-> target]

Init ==
    /\ file \in DOMAIN Files
    /\ status = "unparsed"
    /\ puppet = NoPuppet
    /\ fd = NoFrame
    /\ pc = "parse"
    /\ k = 0
    /\ params = <<>>
    /\ updates = <<>>
    /\ log = <<>>
    /\ stray = <<>>
    /\ gin = NoGlueCall
    /\ gout = <<>>
    /\ call = NoCall
    /\ ret = <<>>
    /\ pendulum = NoPendulum
    /\ build \in Builds

\* let puppet = parse_puppet(bytes)
ParsePuppet ==
    /\ pc = "parse"
    /\ \E r \in {parse_puppet(Files[file])} :
           /\ status' = r.result
           /\ puppet' = r.puppet
           /\ pc' = IF r.result = "ok" THEN "new" ELSE "end"
    /\ UNCHANGED <<file, fd, k, params, updates, log, stray, gin, gout, call, ret, pendulum, build>>

\* the frame data constructed for the puppet
NewFrameData ==
    /\ pc = "new"
    /\ fd' = FreshFrame(Files[file].table)
    /\ pc' = "idle"
    /\ UNCHANGED <<file, status, puppet, k, params, updates, log, stray, gin, gout, call, ret, pendulum, build>>

\* puppet.update(&parameter_values, &mut frame_data) is entered
BeginUpdate ==
    /\ status = "ok" /\ pc = "idle"
    /\ Len(updates) < MaxUpdates
    /\ \E p \in ParamVectors(Len(puppet.params)) : params' = p
    /\ pc' = "apply" /\ k' = 0 /\ log' = <<>>
    /\ UNCHANGED <<file, status, puppet, fd, updates, stray, gin, gout, call, ret, pendulum, build>>

\* A panic unwinds out of update at the current position.
Panic ==
    /\ status' = "panic"
    /\ UNCHANGED <<file, puppet, fd, pc, k, params, updates, log, stray, gin, gout, call, ret, pendulum, build>>

\* for applicator in &self.applicators { applicator.apply(..) }
ApplyStep ==
    /\ status = "ok" /\ pc = "apply" /\ k < Len(puppet.applicators)
    /\ LET app == At(puppet.applicators, k)
       IN  IF ApplyPanics(app, params, fd) THEN Panic
           ELSE /\ fd' = apply(app, params, fd)
                /\ k' = k + 1
                /\ log' = Append(log, LogEntry("apply", app.kind, app.kind_index,
                                               IsSome(app.blend), app.target))
                /\ UNCHANGED <<file, status, puppet, pc, params, updates, stray, gin, gout, call, ret, pendulum, build>>

\* one iteration of the two nested loops of the tree walk
WalkStep ==
    /\ status = "ok" /\ pc = "walk" /\ k < Len(Edges(puppet))
    /\ \E child_id \in {At(Edges(puppet), k)} :
       LET child == puppet.nodes[child_id]
           entry == LogEntry("walk", child.kind, child.broad_index, FALSE, child.broad_index)
       IN  IF WalkPanics(puppet, child_id, fd) THEN Panic
           ELSE \E outcome \in StrayOutcomes :
                IF WalkStrays(puppet, child_id, fd) /\ outcome.fault
                THEN /\ status' = "fault"
                     /\ UNCHANGED <<file, puppet, fd, pc, k, params, updates, log, stray,
                                    gin, gout, call, ret, pendulum, build>>
                ELSE \E inside \in {/\ WalkStrays(puppet, child_id, fd)
                                     /\ outcome.lands = "art_mesh_colors"
                                     /\ fd.art_mesh_colors # <<>>} :
                     \E read \in {IF inside THEN fd.art_mesh_colors[1] ELSE outcome.read} :
                     \E written \in {blend(ParentColor(puppet.nodes[child.parent], fd), read)} :
                     /\ fd' = IF inside
                              THEN [WalkEdge(puppet, child_id, fd) EXCEPT
                                        !.art_mesh_colors[1] = written]
                              ELSE WalkEdge(puppet, child_id, fd)
                     /\ stray' = IF WalkStrays(puppet, child_id, fd)
                                 THEN Append(stray,
                                        [slot |-> ChildColorSlot(child),
                                         read |-> read,
                                         lands |-> IF inside THEN "art_mesh_colors"
                                                   ELSE "outside",
                                         written |-> written])
                                 ELSE stray
                     /\ k' = k + 1
                     /\ log' = Append(log, entry)
                     /\ UNCHANGED <<file, status, puppet, pc, params, updates, gin, gout, call, ret, pendulum, build>>

\* for glue in &self.glue_nodes { .. apply_glue(..) }
GlueStep ==
    /\ status = "ok" /\ pc = "glue" /\ k < Len(puppet.glue_nodes)
    /\ LET glue == At(puppet.glue_nodes, k)
       IN  IF GluePassPanics(glue, fd) THEN Panic
           ELSE IF GluePassStrays(glue, fd)
           THEN /\ status' = "fault"
                /\ UNCHANGED <<file, puppet, fd, pc, k, params, updates, log, stray, gin, gout, call, ret, pendulum, build>>
           ELSE /\ fd' = GluePass(glue, fd)
                /\ k' = k + 1
                /\ log' = Append(log, LogEntry("glue", "Glue", glue.kind_index, FALSE,
                                               glue.kind_index))
                /\ UNCHANGED <<file, status, puppet, pc, params, updates, stray, gin, gout, call, ret, pendulum, build>>

\* An order of the loops in which the glue loop precedes the tree walk.
GlueBeforeWalk(pass) ==
    CASE pass = "apply" -> "glue" [] pass = "glue" -> "walk" [] pass = "walk" -> "order"
\* The order of the three loops of update and the call that follows them.
NextPass(pass) ==
    CASE pass = "apply" -> "walk" [] pass = "walk" -> "glue" [] pass = "glue" -> "order"

PassLength(pass) ==
    CASE pass = "apply" -> Len(puppet.applicators)
      [] pass = "walk" -> Len(Edges(puppet))
      [] pass = "glue" -> Len(puppet.glue_nodes)

\* a loop of update runs out of elements
PassDone ==
    /\ status = "ok" /\ pc \in {"apply", "walk", "glue"}
    /\ k = PassLength(pc)
    /\ pc' = NextPass(pc)
    /\ k' = 0
    /\ UNCHANGED <<file, status, puppet, fd, params, updates, log, stray, gin, gout, call, ret, pendulum, build>>

\* draw_order_tree(&self.draw_order_nodes, self.draw_order_roots[0], frame_data)
\* and the return of update
DrawOrder ==
    /\ status = "ok" /\ pc = "order"
    /\ \E st \in {draw_order_tree(puppet.draw_order_nodes, puppet.draw_order_roots[1], fd)} :
           IF st.panicked THEN Panic
           ELSE /\ fd' = st.frame_data
                /\ pc' = "idle"
                /\ updates' = Append(updates, params)
                /\ log' = Append(log, LogEntry("order", "Part", 0, FALSE, 0))
                /\ UNCHANGED <<file, status, puppet, k, params, stray, gin, gout, call, ret, pendulum, build>>

Next ==
    \/ ParsePuppet
    \/ NewFrameData
    \/ BeginUpdate
    \/ ApplyStep
    \/ WalkStep
    \/ GlueStep
    \/ PassDone
    \/ DrawOrder

Spec == Init /\ [][Next]_vars

----------------------------------------------------------------------------
\* apply_glue on its own: one call on a pair of one-vertex meshes.

GluePoints == {VQ(0, 0), VQ(2, 0), VQ(1, 3), V(Half, Q(-1))}
GlueWeights == {Q(0), Quarter, Half, Q(1)}
GlueIntensities == {Q(0), Half, Q(1)}

GlueInit ==
    /\ gin \in [intensity : GlueIntensities, positions : {<<0, 0>>},
                weights : GlueWeights \X GlueWeights,
                art_mesh_one : {<<a>> : a \in GluePoints},
                art_mesh_two : {<<b>> : b \in GluePoints}]
    /\ gout = <<>>
    /\ file = 1 /\ status = "unparsed" /\ puppet = NoPuppet /\ fd = NoFrame
    /\ pc = "glue_call" /\ k = 0 /\ params = <<>> /\ updates = <<>>
    /\ log = <<>> /\ stray = <<>>
    /\ call = NoCall /\ ret = <<>> /\ pendulum = NoPendulum /\ build = "snapshot"

GlueCall ==
    /\ pc = "glue_call"
    /\ gout' = apply_glue(gin.intensity, gin.positions, gin.weights,
                          gin.art_mesh_one, gin.art_mesh_two)
    /\ pc' = "glue_done"
    /\ UNCHANGED <<file, status, puppet, fd, k, params, updates, log, stray, gin,
                   call, ret, pendulum, build>>

GlueNext == GlueCall

GlueSpec == GlueInit /\ [][GlueNext]_vars

----------------------------------------------------------------------------
\* Properties of parse_puppet, of the builder and of Puppet::update.

\* update has returned at least once and the program is between calls.
Updated == status = "ok" /\ pc = "idle" /\ updates # <<>>

InUnit(q) == RLe(Q(0), q) /\ RLe(q, Q(1))

\* C1: after every update that returns, whatever the parameter vector and
\* whatever updates came before on the same frame data,
\* art_mesh_render_orders holds every art-mesh index 0..art_mesh_count-1
\* exactly once.
C1_RenderOrdersPermutation ==
    Updated =>
        /\ Len(fd.art_mesh_render_orders) = puppet.art_mesh_count
        /\ \A m \in 0..(puppet.art_mesh_count - 1) :
              Cardinality({i \in DOMAIN fd.art_mesh_render_orders :
                              fd.art_mesh_render_orders[i] = m}) = 1

\* A second update on the same frame data has turned the render order of the
\* chain file around: the first update left <<1, 0>>, the second <<0, 1>>.
C1_Witness ==
    /\ Updated /\ file = 1 /\ Len(updates) = 2
    /\ updates[1][1] = Q(0) /\ updates[2][1] = Q(1)
    /\ fd.art_mesh_render_orders = <<0, 1>>

\* C2: every value of the vector the applicators are given lies within
\* [min, max] of its parameter: update clamps the caller's values before the
\* applicator pass, so no applicator brackets a value outside the range.
C2_ClampedBeforeApplicators ==
    (pc = "apply") =>
        \A i \in DOMAIN params :
            /\ RLe(Files[file].table.parameters[i].min, params[i])
            /\ RLe(params[i], Files[file].table.parameters[i].max)

\* C3: the frame data an update leaves does not depend on what the frame
\* data held before the call: after any earlier updates it equals the result
\* of one update with the same parameters on freshly constructed frame data
\* (positions, opacities, colors, draw orders, deformer scales, render
\* orders and every other field).
C3_IndependentOfHistory ==
    Updated => fd = update(puppet, params, FreshFrame(Files[file].table))

\* The chain file after two updates with different parameter vectors.
C3_Witness ==
    /\ Updated /\ file = 1 /\ Len(updates) = 2
    /\ updates[1] # updates[2]
    /\ updates[2] = params
    /\ fd.deformer_scale_data # FreshFrame(Files[file].table).deformer_scale_data

\* C4: parse_puppet never panics: for every file it returns Ok(puppet) or
\* Err(ParseError), and a malformed file (parent references that do not
\* precede their children among them) yields Err(ParseError).
C4_ParseNeverPanics == ~(pc = "end" /\ status = "panic")

\* C5: a header whose big_endian byte is non-zero makes parsing fail with
\* ParseError.
C5_BigEndianRejected ==
    (pc # "parse" /\ Files[file].big_endian # 0) => status = "err"

\* The table row of the entity an applicator built by the deformer, art-mesh
\* and glue loops belongs to, and the entity's keyform binding.
EntityOf(table, app) ==
    CASE app.kind = "WarpDeformer" -> At(table.warp_deformers, app.kind_index)
      [] app.kind = "RotationDeformer" -> At(table.rotation_deformers, app.kind_index)
      [] app.kind = "ArtMesh" -> At(table.art_meshes, app.kind_index)
      [] app.kind = "Glue" -> At(table.glues, app.kind_index)

EntityBinding(table, app) ==
    At(table.keyform_bindings, EntityOf(table, app).keyform_binding_sources_index)

\* Every deformer's parent is stored before it.
ParentsFirst(table) ==
    \A i \in DOMAIN table.deformers : table.deformers[i].parent_deformer_index < i - 1

\* C6: for a file read_le accepts whose references are consistent, whatever
\* number D >= 1 of parameter bindings the keyform binding of a warp
\* deformer, rotation deformer, art mesh or glue lists (D > 3 included),
\* puppet_from_moc3 succeeds and the entity's applicator has exactly the D
\* axes of the binding, in binding order.
C6_EveryAxisKept ==
    (pc # "parse" /\ read_le(Files[file]) /\ ParentsFirst(Files[file].table)) =>
        /\ ~(pc = "end" /\ status = "panic")
        /\ \A a \in DOMAIN puppet.applicators :
              LET app == puppet.applicators[a]
                  kb == EntityBinding(Files[file].table, app)
              IN  (~IsSome(app.blend) /\ kb.count >= 1) =>
                      UsedAxes(app) = [j \in 1..kb.count |->
                                          BindingAxis(Files[file].table, kb.start + j - 1)]

\* Every keyform opacity of deformer d and of the deformers above it lies in
\* [0, 1]  (d = -1: no deformer).
RECURSIVE ChainInUnit(_, _)
ChainInUnit(table, d) ==
    IF d < 0 \/ d >= Len(table.deformers) THEN TRUE
    ELSE LET row == At(table.deformers, d)
             own == IF row.type = 0
                    THEN At(table.warp_deformers, row.specific_sources_index).opacities
                    ELSE At(table.rotation_deformers, row.specific_sources_index).opacities
         IN  /\ \A o \in Range(own) : InUnit(o)
             /\ ChainInUnit(table, row.parent_deformer_index)

SourceOpacitiesInUnit(table, i) ==
    /\ \A o \in Range(At(table.art_meshes, i).opacities) : InUnit(o)
    /\ ChainInUnit(table, At(table.art_meshes, i).parent_deformer_index)

PassRank(pass) ==
    CASE pass = "apply" -> 0 [] pass = "walk" -> 1 [] pass = "glue" -> 2 [] pass = "order" -> 3

Done(pass) == Cardinality({i \in DOMAIN log : log[i].pass = pass})

\* C9: within one update every applicator is applied before any tree-walk
\* edge is processed, every edge is processed before any glue is applied,
\* and every glue is applied before draw-order resolution writes the render
\* orders.  log lists the steps of the update in progress in the order they
\* ran.
C9_PassOrder ==
    /\ \A i, j \in DOMAIN log : i < j => PassRank(log[i].pass) <= PassRank(log[j].pass)
    /\ (Done("walk") + Done("glue") + Done("order") > 0) =>
            Done("apply") = Len(puppet.applicators)
    /\ (Done("glue") + Done("order") > 0) => Done("walk") = Len(Edges(puppet))
    /\ (Done("order") > 0) => Done("glue") = Len(puppet.glue_nodes)

\* An update of the chain file (applicators, edges and a glue) has returned.
C9_Witness ==
    /\ Updated /\ file = 1
    /\ Done("apply") > 0 /\ Done("walk") > 0 /\ Done("glue") > 0 /\ Done("order") = 1

\* C10: in the applicator list puppet_from_moc3 builds every applicator
\* without blend constraints precedes every applicator with them, so in
\* every update a blend-shape applicator runs after the base applicator of
\* the entity it targets has written.
C10_BaseBeforeBlend ==
    /\ \A i, j \in DOMAIN puppet.applicators :
          (i < j /\ IsSome(puppet.applicators[i].blend)) =>
              IsSome(puppet.applicators[j].blend)
    /\ \A j \in DOMAIN log :
          (log[j].pass = "apply" /\ log[j].blended) =>
              \E i \in 1..(j - 1) :
                  /\ log[i].pass = "apply" /\ ~log[i].blended
                  /\ log[i].kind = log[j].kind
                  /\ log[i].index = log[j].target

\* An update of the blend-shape file has run its two blend-shape
\* applicators (one on an art mesh, one on a warp deformer).
C10_Witness ==
    /\ Updated /\ file = 2
    /\ \E i, j \in DOMAIN log :
          /\ log[i].blended /\ log[i].kind = "ArtMesh"
          /\ log[j].blended /\ log[j].kind = "WarpDeformer"

----------------------------------------------------------------------------
\* Properties of apply_glue, under GlueSpec.

Midpoint(a, b) == VScale(VAdd(a, b), Half)

BothAtMidpoint ==
    /\ gout[1][1] = Midpoint(gin.art_mesh_one[1], gin.art_mesh_two[1])
    /\ gout[2][1] = Midpoint(gin.art_mesh_one[1], gin.art_mesh_two[1])

\* C8 as stated: apply_glue with intensity 1 and equal weights, whatever
\* their common value, leaves both coupled vertices at the midpoint of the
\* positions they had before the call.
C8_EqualWeightsMidpoint ==
    (pc = "glue_done" /\ gin.intensity = Q(1) /\ gin.weights[1] = gin.weights[2]) =>
        BothAtMidpoint

\* C8: apply_glue with intensity 1 and both weights 1/2 leaves both coupled
\* vertices at the midpoint of the positions they had before the call, for
\* every pair of start positions.
C8_HalfWeightsMidpoint ==
    (pc = "glue_done" /\ gin.intensity = Q(1) /\ gin.weights = <<Half, Half>>) =>
        BothAtMidpoint

\* The call of the spec's worked example: (0,0) and (2,0) glued at (1,0).
C8_Witness ==
    /\ pc = "glue_done" /\ gin.intensity = Q(1) /\ gin.weights = <<Half, Half>>
    /\ gin.art_mesh_one = <<VQ(0, 0)>> /\ gin.art_mesh_two = <<VQ(2, 0)>>
    /\ gout = <<<<VQ(1, 0)>>, <<VQ(1, 0)>>>>

----------------------------------------------------------------------------
\* Properties of ParamApplicator::apply on blend-shape applicators.

\* The step taken is the application of applicator k of the update.
Applied(kind) ==
    /\ status = "ok" /\ pc = "apply" /\ status' = "ok" /\ k' = k + 1
    /\ At(puppet.applicators, k).kind = kind

\* The positions or grid the applicator interpolates at the parameters.
Interpolated(app) ==
    cast_vec(Interpolate(app, params, VecLanes(app.choices)))

\* C11: an applicator with blend constraints adds gate x interpolated value
\* onto the positions (art mesh) or grid (warp deformer) already in
\* FrameData, and one without blend constraints replaces them.
C11_BlendAddsBaseReplaces ==
    [][/\ Applied("ArtMesh") =>
            LET app == At(puppet.applicators, k)
                i1 == app.kind_index + 1
            IN  fd'.art_mesh_data[i1] =
                    IF IsSome(app.blend)
                    THEN ZipAdd(fd.art_mesh_data[i1], Interpolated(app),
                                LowestWeight(Unwrap(app.blend), params, Q(1)))
                    ELSE Interpolated(app)
       /\ Applied("WarpDeformer") =>
            LET app == At(puppet.applicators, k)
                i1 == app.kind_index + 1
            IN  fd'.warp_deformer_data[i1] =
                    IF IsSome(app.blend)
                    THEN ZipAdd(fd.warp_deformer_data[i1], Interpolated(app),
                                LowestWeight(Unwrap(app.blend), params, Q(1)))
                    ELSE Interpolated(app)]_vars

----------------------------------------------------------------------------
\* The pure functions of deformer/warp_deformer.rs and puppet/applicator.rs,
\* each called once on an argument drawn from a bounded set.

KernelCoords == {Q(-3), Q(-1), Q(0), Rat(1, 4), Rat(1, 2), Rat(3, 4), Q(1), Q(2), Q(4)}
KernelPoints == KernelCoords \X KernelCoords

\* The grid of a warp deformer with `rows` x `columns` cells, row-major with
\* columns + 1 control points per row: the uniform grid G[x, y] = (x/C, y/R),
\* and the same grid sheared along x.
UniformGrid(rows, columns) ==
    [i \in 1..((rows + 1) * (columns + 1)) |->
        <<Rat((i - 1) % (columns + 1), columns), Rat((i - 1) \div (columns + 1), rows)>>]

ShearedGrid(rows, columns) ==
    [i \in 1..((rows + 1) * (columns + 1)) |->
        <<RAdd(Rat((i - 1) % (columns + 1), columns), Rat((i - 1) \div (columns + 1), rows)),
          Rat((i - 1) \div (columns + 1), rows)>>]

WarpCalls ==
    UNION {[fn : {"apply_warp_deformer"},
            grid : {UniformGrid(r, c), ShearedGrid(r, c)},
            is_new_deformer : BOOLEAN, rows : {r}, columns : {c},
            points_to_transform : {<<p>> : p \in KernelPoints}]
           : r \in 1..2, c \in 1..2}

KeyLists ==
    {<<Q(0), Q(1)>>, <<Q(0), Rat(1, 2), Q(1)>>, <<Q(-1), Q(0), Q(1), Q(2)>>}

KernelValues ==
    {Q(-2), Q(-1), Rat(-1, 2), Q(0), Rat(1, 4), Rat(1, 2), Rat(3, 4), Q(1), Rat(3, 2), Q(2), Q(3)}

\* Applicators over 1, 2 and 3 axes with 3, 2 and 2 keys, bound to parameters
\* 0, 1 and 2, whose keyform table holds a different value in every entry:
\* an art mesh (vector lanes, scalar opacities) and a rotation deformer
\* (transform lanes).
KernelAxes ==
    <<[keys |-> <<Q(0), Half, Q(1)>>, param |-> 0],
      [keys |-> <<Q(0), Q(1)>>, param |-> 1],
      [keys |-> <<Q(0), Q(1)>>, param |-> 2]>>

KernelTableLen(axes) == IF axes = 1 THEN 3 ELSE IF axes = 2 THEN 6 ELSE 12

KernelApplicator(axes, kind) ==
    ParamApplicator(
        Some(KernelAxes[1]),
        IF axes >= 2 THEN Some(KernelAxes[2]) ELSE None,
        IF axes >= 3 THEN Some(KernelAxes[3]) ELSE None,
        0, kind,
        [i \in 1..KernelTableLen(axes) |->
            IF kind = "ArtMesh" THEN <<VQ(i - 1, 100 + i)>>
            ELSE TransformData(VQ(i - 1, 0), Q(1), Q(10 * i))],
        [i \in 1..KernelTableLen(axes) |-> Q(i - 1)],
        <<>>, None, 0)

KernelParams == {Q(0), Quarter, Half, Q(1)}

InterpolateCalls ==
    [fn : {"do_interpolate"},
     app : {KernelApplicator(axes, kind) :
                axes \in 1..3, kind \in {"ArtMesh", "RotationDeformer"}},
     lanes : {"choices", "opacities"},
     parameters : KernelParams \X KernelParams \X KernelParams]

\* The table of lane vectors a call of do_interpolate works on.
KernelTable(c) ==
    IF c.lanes = "opacities" THEN Singles(c.app.opacities)
    ELSE IF c.app.kind = "ArtMesh" THEN VecLanes(c.app.choices)
    ELSE TransformLanes(c.app.choices)

\* The keyform entries one interpolation reads: for every corner
\* <<cx, cy, cz>> of the bracket (0 on an unused axis) the index it is read at.
CornerReads(app, parameters) ==
    LET axes == UsedAxes(app)
        lu(i) == IF i <= Len(axes) THEN AxisBracket(axes[i], parameters) ELSE <<0, 0>>
    IN  {<<<<cx, cy, cz>>, KeyformIndex(app, cx, cy, cz)>> :
            cx \in {lu(1)[1], lu(1)[2]}, cy \in {lu(2)[1], lu(2)[2]},
            cz \in {lu(3)[1], lu(3)[2]}}

\* The outcome of a call: a return value or a panic.
Returned(value) == [panicked |-> FALSE, value |-> value]
Panicking == [panicked |-> TRUE, value |-> <<>>]

\* moc3-wgpu renderer.rs Renderer::render.  An art mesh as the loop over
\* render_orders sees it: whether its index buffer is non-empty, whether
\* mask_indices lists masks for it, and the inverted bit of its flags.
RenderMesh(drawn, masked, inverted) ==
    [drawn |-> drawn, masked |-> masked, inverted |-> inverted]

\* What the pass does for the mesh at position i of the render order: the
\* reference set from cur_stencil_test_ref while its masks are drawn, and
\* the reference in force at its own draw.
RenderDraw(i, masked, mask_reference, draw_reference) ==
    [position |-> i, masked |-> masked, mask_reference |-> mask_reference,
     draw_reference |-> draw_reference]

\* One iteration of the loop of render, on the mesh at position i of the
\* render order.  cur_stencil_test_ref is a u8: `+= 1` at 255 panics in a
\* build with overflow checks and wraps to 0 in a build without.
RenderStep(st, meshes, i, overflow_checks) ==
    IF st.panicked \/ ~meshes[i].drawn THEN st
    ELSE IF ~meshes[i].masked
    THEN [st EXCEPT !.draws = Append(@, RenderDraw(i, FALSE, 0, 0))]
    ELSE IF st.cur_stencil_test_ref = 255 /\ overflow_checks
    THEN [st EXCEPT !.panicked = TRUE]
    ELSE Eval({[st EXCEPT
                  !.cur_stencil_test_ref = cur,
                  !.draws = Append(@, RenderDraw(i, TRUE, cur,
                                        IF meshes[i].inverted THEN 0 ELSE cur))] :
                cur \in {(st.cur_stencil_test_ref + 1) % 256}})

\* The iterations lo..hi of the loop in order, the first half before the
\* second.
RECURSIVE RenderLoop(_, _, _, _, _)
RenderLoop(meshes, lo, hi, st, overflow_checks) ==
    IF lo > hi THEN st
    ELSE IF lo = hi THEN RenderStep(st, meshes, lo, overflow_checks)
    ELSE Eval({RenderLoop(meshes, mid + 1, hi, first, overflow_checks) :
                mid \in {(lo + hi) \div 2},
                first \in {Eval({RenderLoop(meshes, lo, half, st, overflow_checks) :
                                    half \in {(lo + hi) \div 2}})}})

render(meshes, overflow_checks) ==
    LET done == Eval({RenderLoop(meshes, 1, Len(meshes),
                        [cur_stencil_test_ref |-> 0, draws |-> <<>>, panicked |-> FALSE],
                        overflow_checks)})
    IN  IF done.panicked THEN Panicking ELSE Returned(done.draws)

\* The render orders handed to render: up to MaxMasked masked meshes, all
\* inverted or none, after nothing, an unmasked mesh or a masked mesh with
\* an empty index buffer.
MaxMasked == 257

RenderCalls ==
    [fn : {"render"},
     meshes : {lead \o [j \in 1..m |-> RenderMesh(TRUE, TRUE, inverted)] :
                lead \in {<<>>, <<RenderMesh(TRUE, FALSE, FALSE)>>,
                          <<RenderMesh(FALSE, TRUE, FALSE)>>},
                m \in 0..MaxMasked, inverted \in BOOLEAN},
     overflow_checks : BOOLEAN]

KernelInit ==
    /\ \/ call \in [fn : {"calc_case_index"}, point : KernelPoints]
       \/ call \in WarpCalls
       \/ call \in [fn : {"lower_upper_indices"}, slice : KeyLists, elem : KernelValues]
       \/ call \in InterpolateCalls
       \/ call \in RenderCalls
    /\ ret = <<>>
    /\ pc = "kernel_call"
    /\ file = 1 /\ status = "unparsed" /\ puppet = NoPuppet /\ fd = NoFrame
    /\ k = 0 /\ params = <<>> /\ updates = <<>> /\ log = <<>> /\ stray = <<>>
    /\ gin = NoGlueCall /\ gout = <<>> /\ pendulum = NoPendulum /\ build = "snapshot"

CalcCaseIndex ==
    /\ pc = "kernel_call" /\ call.fn = "calc_case_index"
    /\ ret' = Returned(calc_case_index(call.point))
    /\ pc' = "kernel_done"
    /\ UNCHANGED <<file, status, puppet, fd, k, params, updates, log, stray, gin, gout,
                   call, pendulum, build>>

ApplyWarpDeformer ==
    /\ pc = "kernel_call" /\ call.fn = "apply_warp_deformer"
    /\ ret' = IF \E i \in DOMAIN call.points_to_transform :
                    WarpPointPanics(call.points_to_transform[i])
              THEN Panicking
              ELSE Returned(apply_warp_deformer(call.grid, call.is_new_deformer,
                                call.rows, call.columns, call.points_to_transform))
    /\ pc' = "kernel_done"
    /\ UNCHANGED <<file, status, puppet, fd, k, params, updates, log, stray, gin, gout,
                   call, pendulum, build>>

\* `index - 1` on Err(0): a debug build panics on the overflow, a release
\* build wraps to usize::MAX (written -1 here) and returns.
LowerUpperIndices ==
    /\ pc = "kernel_call" /\ call.fn = "lower_upper_indices"
    /\ \E r \in {lower_upper_indices(call.slice, call.elem)} :
          IF r[1] < 0
          THEN ret' \in {Panicking, Returned(r)}
          ELSE ret' = Returned(r)
    /\ pc' = "kernel_done"
    /\ UNCHANGED <<file, status, puppet, fd, k, params, updates, log, stray, gin, gout,
                   call, pendulum, build>>

DoInterpolate ==
    /\ pc = "kernel_call" /\ call.fn = "do_interpolate"
    /\ ret' = IF InterpolatePanics(call.app, call.parameters, KernelTable(call))
              THEN Panicking
              ELSE Returned([result |-> Interpolate(call.app, call.parameters,
                                                    KernelTable(call)),
                             reads |-> CornerReads(call.app, call.parameters)])
    /\ pc' = "kernel_done"
    /\ UNCHANGED <<file, status, puppet, fd, k, params, updates, log, stray, gin, gout,
                   call, pendulum, build>>

\* renderer.render(&view, &mut encoder)
Render ==
    /\ pc = "kernel_call" /\ call.fn = "render"
    /\ ret' = render(call.meshes, call.overflow_checks)
    /\ pc' = "kernel_done"
    /\ UNCHANGED <<file, status, puppet, fd, k, params, updates, log, stray, gin, gout,
                   call, pendulum, build>>

KernelNext ==
    CalcCaseIndex \/ ApplyWarpDeformer \/ LowerUpperIndices \/ DoInterpolate \/ Render

KernelSpec == KernelInit /\ [][KernelNext]_vars

----------------------------------------------------------------------------
\* Properties of calc_case_index, under KernelSpec.

CaseIndexReturned ==
    pc = "kernel_done" /\ call.fn = "calc_case_index" /\ ~ret.panicked

\* The band of one coordinate with the unit interval closed at 1, and with
\* the unit interval half open.
ClosedBand(a) == IF RLt(a, Q(0)) THEN 0 ELSE IF RLe(a, Q(1)) THEN 1 ELSE 2
HalfOpenBand(a) == IF RLt(a, Q(0)) THEN 0 ELSE IF RLt(a, Q(1)) THEN 1 ELSE 2

\* C12 as stated: calc_case_index(p) = col + 3 * row with col = 0 for
\* p.x < 0, 1 for p.x in [0, 1] and 2 for p.x > 1, row likewise from p.y,
\* also for points exactly on x = 1 or y = 1.
C12_ClosedUnitBands ==
    CaseIndexReturned =>
        ret.value = ClosedBand(call.point[1]) + 3 * ClosedBand(call.point[2])

\* C12 amended: calc_case_index(p) = col + 3 * row with col = 0 for p.x < 0,
\* 1 for 0 <= p.x < 1 and 2 for p.x >= 1, row likewise from p.y; a point
\* exactly on x = 1 or y = 1 belongs to the outer band.
C12_HalfOpenUnitBands ==
    CaseIndexReturned =>
        ret.value = HalfOpenBand(call.point[1]) + 3 * HalfOpenBand(call.point[2])

\* calc_case_index has returned 5 for the point (1, 1/2) on the line x = 1.
C12_Witness ==
    /\ CaseIndexReturned
    /\ call.point = <<Q(1), Rat(1, 2)>>
    /\ ret.value = 5

----------------------------------------------------------------------------
\* Properties of apply_warp_deformer, under KernelSpec.

\* apply_warp_deformer has been called on the uniform grid of its rows and
\* columns with one interior point.
IdentityWarpCall ==
    /\ pc = "kernel_done" /\ call.fn = "apply_warp_deformer"
    /\ call.grid = UniformGrid(call.rows, call.columns)
    /\ is_normal(call.points_to_transform[1])

\* C13: on the uniform grid G[x, y] = (x/C, y/R) with R, C >= 1,
\* apply_warp_deformer returns every interior point (0 <= p.x < 1,
\* 0 <= p.y < 1) unchanged, with is_new_deformer (bilinear) and without it
\* (barycentric).
C13_IdentityWarpFixesInterior ==
    IdentityWarpCall =>
        /\ ~ret.panicked
        /\ ret.value = call.points_to_transform

\* The barycentric path has mapped the interior point (3/4, 3/4), which lies
\* in the upper triangle of cell (0, 1) of the uniform grid with 2 rows and
\* 1 column, to itself.
C13_Witness ==
    /\ IdentityWarpCall
    /\ ~call.is_new_deformer /\ call.rows = 2 /\ call.columns = 1
    /\ call.points_to_transform = <<<<Rat(3, 4), Rat(3, 4)>>>>
    /\ ret.value = <<<<Rat(3, 4), Rat(3, 4)>>>>

----------------------------------------------------------------------------
\* Properties of a puppet without art meshes, under Spec.

NoArtMeshes == read_le(Files[file]) /\ Files[file].table.art_meshes = <<>>

\* C14: for a puppet with zero art meshes, building the puppet and calling
\* update never panic, an update leaves FrameData as it was constructed, and
\* art_mesh_render_orders is empty.
C14_EmptyPuppetNoOp ==
    NoArtMeshes =>
        /\ status # "panic"
        /\ Updated => /\ fd = FreshFrame(Files[file].table)
                      /\ fd.art_mesh_render_orders = <<>>

----------------------------------------------------------------------------
\* Properties of lower_upper_indices, under KernelSpec.

\* C16: for every strictly ascending key list of length n >= 2 and every
\* value p, lower_upper_indices returns without panicking a pair (lo, lo+1)
\* with 0 <= lo <= n-2: (0, 1) when p is below the first key, (n-2, n-1)
\* when p is above the last key, and otherwise an interval with
\* keys[lo] <= p <= keys[lo+1].
C16_BracketClampsOutOfRange ==
    (pc = "kernel_done" /\ call.fn = "lower_upper_indices") =>
        LET keys == call.slice
            n == Len(keys)
            p == call.elem
            lo == ret.value[1]
        IN  /\ ~ret.panicked
            /\ ret.value[2] = lo + 1
            /\ 0 <= lo /\ lo <= n - 2
            /\ IF RLt(p, keys[1]) THEN lo = 0
               ELSE IF RLt(keys[n], p) THEN lo = n - 2
               ELSE RLe(At(keys, lo), p) /\ RLe(p, At(keys, lo + 1))

----------------------------------------------------------------------------
\* Properties of do_interpolate, under KernelSpec.

Interpolated3 ==
    pc = "kernel_done" /\ call.fn = "do_interpolate"

\* The number of keys on axis i of an applicator (1 on an unused axis).
AxisLen(app, i) ==
    IF i <= Len(UsedAxes(app)) THEN Len(UsedAxes(app)[i].keys) ELSE 1

\* C17: the keyform read for corner key indices (c0, c1, c2) of an
\* applicator with axes of lengths n0, n1, n2 is table entry
\* c0 + c1*n0 + c2*n0*n1, which is below n0*n1*n2; likewise for 1 and 2
\* axes, for vector, scalar and rotation-transform lanes.
C17_MixedRadixIndex ==
    Interpolated3 =>
        /\ ~ret.panicked
        /\ \A r \in ret.value.reads :
              LET n0 == AxisLen(call.app, 1)
                  n1 == AxisLen(call.app, 2)
                  n2 == AxisLen(call.app, 3)
              IN  /\ r[2] = r[1][1] + r[1][2] * n0 + r[1][3] * n0 * n1
                  /\ r[2] < n0 * n1 * n2

----------------------------------------------------------------------------
\* Properties of the Glue arm of ParamApplicator::apply, under Spec.

\* The applicator loop of the update in progress has run to its end.
ApplicatorsDone == status = "ok" /\ pc \in {"walk", "glue", "order"}

\* C19: after the applicator pass glue_data[g] is the multilinear
\* interpolation of glue g's keyform intensities at the current parameter
\* values (intensities[k] when the one bound parameter sits on key k).
C19_GlueIntensityInterpolated ==
    ApplicatorsDone =>
        \A a \in DOMAIN puppet.applicators :
            LET app == puppet.applicators[a]
            IN  (/\ app.kind = "Glue"
                 /\ ~InterpolatePanics(app, params, Singles(app.choices))) =>
                    fd.glue_data[app.kind_index + 1] =
                        Interpolate(app, params, Singles(app.choices))[1]

----------------------------------------------------------------------------
\* Properties of the gate of a blend-shape applicator, under Spec.

\* The minimum over the constraints of their piecewise-linear weight at the
\* current value of their parameter.
MinWeight(constraints, parameters) ==
    LET weights == {process(constraints[c], parameters) : c \in DOMAIN constraints}
    IN  CHOOSE w \in weights : \A v \in weights : RLe(w, v)

\* The step taken applies a blend-shape applicator of the given kind that
\* has at least one constraint.
AppliedBlend(kind) ==
    /\ Applied(kind)
    /\ IsSome(At(puppet.applicators, k).blend)
    /\ Unwrap(At(puppet.applicators, k).blend) # <<>>

\* C18: the gate a blend-shape applicator with a non-empty constraint list
\* applies to what it adds is exactly the minimum over its constraints of
\* the constraint's piecewise-linear weight at the constraint's parameter.
C18_GateIsMinimumWeight ==
    [][/\ AppliedBlend("ArtMesh") =>
            LET app == At(puppet.applicators, k)
                i1 == app.kind_index + 1
            IN  fd'.art_mesh_data[i1] =
                    ZipAdd(fd.art_mesh_data[i1], Interpolated(app),
                           MinWeight(Unwrap(app.blend), params))
       /\ AppliedBlend("WarpDeformer") =>
            LET app == At(puppet.applicators, k)
                i1 == app.kind_index + 1
            IN  fd'.warp_deformer_data[i1] =
                    ZipAdd(fd.warp_deformer_data[i1], Interpolated(app),
                           MinWeight(Unwrap(app.blend), params))]_vars

----------------------------------------------------------------------------
\* Properties of the order of the tree walk, under Spec.

\* The positions of the walk entries in the log of the update, and the node
\* a walk entry processed as a child.
WalkEntries == {i \in DOMAIN log : log[i].pass = "walk"}

ChildOf(i) ==
    CHOOSE n \in DOMAIN puppet.nodes :
        /\ puppet.nodes[n].kind = log[i].kind
        /\ puppet.nodes[n].broad_index = log[i].index

WalkDone == status = "ok" /\ pc \in {"glue", "order"}

\* C20: in the tree walk of one update every non-root node is processed as a
\* child exactly once; when it is processed its parent has already been
\* processed under its own parent, and the parent's own buffers (grid or
\* transform, opacity, color, scale) hold their final value: no edge
\* processed from then on assigns them.
C20_ParentFinalBeforeChild ==
    /\ \A i, j \in WalkEntries : i # j => ChildOf(i) # ChildOf(j)
    /\ WalkDone =>
          \A n \in DOMAIN puppet.nodes :
              puppet.nodes[n].parent # 0 => \E i \in WalkEntries : ChildOf(i) = n
    /\ \A j \in WalkEntries :
          LET parent_id == puppet.nodes[ChildOf(j)].parent
              parent == puppet.nodes[parent_id]
          IN  /\ parent.parent # 0 =>
                    \E i \in WalkEntries : i < j /\ ChildOf(i) = parent_id
              /\ \A i \in WalkEntries :
                    i >= j =>
                        WalkWrites(puppet.nodes[ChildOf(i)]) \cap ParentReads(parent) = {}

----------------------------------------------------------------------------
\* moc3-impressionism/src/pendulum.rs.  An f32 is an exact rational or NaN
\* (written <<0, 0>>); every operation on a NaN gives NaN.

NaN == <<0, 0>>
IsNaN(a) == a[2] = 0

FAdd(a, b) == IF IsNaN(a) \/ IsNaN(b) THEN NaN ELSE RAdd(a, b)
FSub(a, b) == IF IsNaN(a) \/ IsNaN(b) THEN NaN ELSE RSub(a, b)
FMul(a, b) == IF IsNaN(a) \/ IsNaN(b) THEN NaN ELSE RMul(a, b)
\* 0.0 / 0.0 is NaN; x / 0.0 for x # 0 is an infinity, which no call divides by.
FDiv(a, b) == IF IsNaN(a) \/ IsNaN(b) \/ b[1] = 0 THEN NaN ELSE RDiv(a, b)

FVAdd(u, v) == <<FAdd(u[1], v[1]), FAdd(u[2], v[2])>>
FVSub(u, v) == <<FSub(u[1], v[1]), FSub(u[2], v[2])>>
FVScale(u, s) == <<FMul(u[1], s), FMul(u[2], s)>>

\* The square root of a rational that is the square of a rational.
ISqrt(m) == CHOOSE s \in 0..m : s * s = m
FSqrt(a) == IF IsNaN(a) THEN NaN ELSE <<ISqrt(a[1]), ISqrt(a[2])>>

\* Vec2::normalize: self * self.length_recip().  For the zero vector
\* length_recip is +inf and 0.0 * inf is NaN in both lanes.
normalize(v) ==
    LET length == FSqrt(FAdd(FMul(v[1], v[1]), FMul(v[2], v[2])))
    IN  IF IsNaN(length) \/ length[1] = 0 THEN <<NaN, NaN>>
        ELSE FVScale(v, RDiv(Q(1), length))

\* f32::sin_cos and Vec2::from_angle(..).rotate(..), for the angles whose
\* sine and cosine are exact.
sin_cos(angle) == CASE angle = Q(0) -> <<Q(0), Q(1)>>
rotate(angle, v) ==
    LET sc == sin_cos(angle)
    IN  <<FSub(FMul(sc[2], v[1]), FMul(sc[1], v[2])),
          FAdd(FMul(sc[1], v[1]), FMul(sc[2], v[2]))>>

PhysicsVertex(position, mobility, delay, acceleration, radius) ==
    [position |-> position, mobility |-> mobility, delay |-> delay,
     acceleration |-> acceleration, radius |-> radius]

PendulumPoint(last_position, cur_position, cur_velocity) ==
    [last_position |-> last_position, cur_position |-> cur_position,
     cur_velocity |-> cur_velocity]

\* Pendulum::new.  calls and moved are not fields of the struct: the number
\* of update_points calls made, and whether the last one had
\* delta_seconds # 0.
new(vertexes) ==
    [last_global_rotation |-> Q(0),
     points |-> [i \in DOMAIN vertexes |->
                    PendulumPoint(vertexes[i].position, vertexes[i].position, VQ(0, 0))],
     vertexes |-> vertexes,
     calls |-> 0, moved |-> FALSE]

\* One iteration of the loop of update_points on (point, vertex), after
\* last_point.
PendulumStep(point, vertex, last_point, delta_seconds, gravity_vector, effective_rotation_change) ==
    LET force == FVScale(gravity_vector, vertex.acceleration)
        effective_time == FMul(delta_seconds, vertex.delay)
        direction == FVSub(point.cur_position, last_point.cur_position)
        rotated_dir == rotate(effective_rotation_change, direction)
        normalized_dir ==
            normalize(FVAdd(FVAdd(rotated_dir, FVScale(point.cur_velocity, effective_time)),
                            FVScale(FVScale(force, effective_time), effective_time)))
        cur_position == FVAdd(last_point.cur_position,
                              FVScale(normalized_dir, vertex.radius))
    IN  PendulumPoint(point.cur_position, cur_position,
            IF effective_time = Q(0) THEN VQ(0, 0)
            ELSE FVScale(<<FDiv(FSub(cur_position[1], point.cur_position[1]), effective_time),
                           FDiv(FSub(cur_position[2], point.cur_position[2]), effective_time)>>,
                         vertex.mobility))

\* The points after the loop has run over points[i..], given the points
\* already updated.
RECURSIVE PendulumLoop(_, _, _, _, _, _)
PendulumLoop(p, done, i, delta_seconds, gravity_vector, effective_rotation_change) ==
    IF i > Len(p.points) THEN done
    ELSE Eval({PendulumLoop(p, Append(done, next), i + 1, delta_seconds, gravity_vector,
                            effective_rotation_change) :
            next \in {PendulumStep(p.points[i], p.vertexes[i], done[i - 1], delta_seconds,
                                   gravity_vector, effective_rotation_change)}})

\* update_points with the early return moved behind the bookkeeping of the
\* rotation.
update_points_late_return(p, delta, update_data) ==
    LET delta_seconds == RMul(delta, Q(20))
    IN  IF delta_seconds = Q(0)
        THEN [p EXCEPT !.last_global_rotation = update_data.rotation,
                       !.calls = @ + 1, !.moved = FALSE]
        ELSE [p EXCEPT
                !.points = PendulumLoop(p,
                    <<PendulumPoint(p.points[1].cur_position, update_data.translation,
                                    p.points[1].cur_velocity)>>,
                    2, delta_seconds, sin_cos(update_data.rotation),
                    RDiv(RSub(p.last_global_rotation, update_data.rotation), Q(5))),
                !.last_global_rotation = update_data.rotation,
                !.calls = @ + 1, !.moved = TRUE]

\* Pendulum::update_points on a pendulum with at least one point.
update_points(p, delta, update_data) ==
    LET delta_seconds == RMul(delta, Q(20))
    IN  IF delta_seconds = Q(0) THEN [p EXCEPT !.calls = @ + 1, !.moved = FALSE]
        ELSE [p EXCEPT
                !.points = PendulumLoop(p,
                    <<PendulumPoint(p.points[1].cur_position, update_data.translation,
                                    p.points[1].cur_velocity)>>,
                    2, delta_seconds, sin_cos(update_data.rotation),
                    RDiv(RSub(p.last_global_rotation, update_data.rotation), Q(5))),
                !.last_global_rotation = update_data.rotation,
                !.calls = @ + 1, !.moved = TRUE]

\* The pendulums constructed and the arguments of update_points: vertexes
\* and anchor translations on the y axis.  A call that steps the pendulum
\* is made without rotation of the world, where sine and cosine are exact; a
\* call with delta_seconds = 0 is also made with the world rotated by 1 rad.
MaxCalls == 2

Bobs ==
    {PhysicsVertex(VQ(0, 3), mobility, delay, acceleration, Q(3)) :
        mobility \in {Q(1), Half}, delay \in {Q(0), Q(1)}, acceleration \in {Q(0), Q(1)}}

PendulumVertexLists ==
    {<<>>}
    \cup {<<PhysicsVertex(VQ(0, 0), Q(1), Q(1), Q(0), Q(0)), bob>> : bob \in Bobs}
    \cup {<<PhysicsVertex(VQ(0, 0), Q(1), Q(1), Q(0), Q(0)),
            PhysicsVertex(VQ(0, 3), Q(1), Q(1), Q(1), Q(3)),
            PhysicsVertex(VQ(0, 5), Half, Q(1), Q(1), Q(2))>>}

Deltas == {Q(0), Rat(1, 20), Rat(1, 10)}
Translations == {VQ(0, 0), VQ(0, 1), VQ(0, 3), VQ(0, -3), VQ(0, 4)}
Rotations == {Q(0)}
IdleRotations == {Q(0), Q(1)}

PendulumInit ==
    /\ pendulum \in {new(vertexes) : vertexes \in PendulumVertexLists}
    /\ pc = "pendulum" /\ status = "ok"
    /\ file = 1 /\ puppet = NoPuppet /\ fd = NoFrame
    /\ k = 0 /\ params = <<>> /\ updates = <<>> /\ log = <<>> /\ stray = <<>>
    /\ gin = NoGlueCall /\ gout = <<>> /\ call = NoCall /\ ret = <<>> /\ build = "snapshot"

\* pendulum.update_points(delta_seconds, UpdateData { translation, rotation });
\* self.points[0] panics on a pendulum without points.
UpdatePoints ==
    /\ pc = "pendulum" /\ status = "ok" /\ pendulum.calls < MaxCalls
    /\ \E delta \in Deltas, translation \in Translations :
       \E rotation \in IF delta = Q(0) THEN IdleRotations ELSE Rotations :
          IF pendulum.points = <<>> /\ delta # Q(0)
          THEN status' = "panic" /\ UNCHANGED pendulum
          ELSE /\ pendulum' = update_points(pendulum, delta,
                                [translation |-> translation, rotation |-> rotation])
               /\ UNCHANGED status
    /\ UNCHANGED <<file, puppet, fd, pc, k, params, updates, log, stray, gin, gout,
                   call, ret, build>>

PendulumNext == UpdatePoints

PendulumSpec == PendulumInit /\ [][PendulumNext]_vars

----------------------------------------------------------------------------
\* Properties of Pendulum::update_points, under PendulumSpec.

\* C15: after every update_points call with dt # 0, following any sequence
\* of earlier calls, each point i >= 1 lies at distance exactly radius_i
\* from point i-1.
C15_LinkLengthIsRadius ==
    (pc = "pendulum" /\ status = "ok" /\ pendulum.moved) =>
        \A i \in 2..Len(pendulum.points) :
            LET d == FVSub(pendulum.points[i].cur_position,
                           pendulum.points[i - 1].cur_position)
                radius == pendulum.vertexes[i].radius
            IN  /\ ~IsNaN(d[1]) /\ ~IsNaN(d[2])
                /\ RLe(Q(0), radius)
                /\ RAdd(RMul(d[1], d[1]), RMul(d[2], d[2])) = RMul(radius, radius)

----------------------------------------------------------------------------
\* Properties of deformer_scale_data, under Spec.

\* The scale the applicator pass of the update interpolates for a rotation
\* deformer node (1 for a warp deformer).
InterpolatedScale(node) ==
    IF node.kind = "RotationDeformer"
    THEN LET app == CHOOSE a \in Range(puppet.applicators) :
                        /\ a.kind = "RotationDeformer" /\ a.kind_index = node.ind
                        /\ ~IsSome(a.blend)
         IN  Interpolate(app, params, TransformLanes(app.choices))[3]
    ELSE Q(1)

\* The product of the interpolated scales on the path from the root to node n.
RECURSIVE PathScale(_)
PathScale(n) ==
    IF puppet.nodes[n].parent = 0 THEN InterpolatedScale(puppet.nodes[n])
    ELSE RMul(InterpolatedScale(puppet.nodes[n]), PathScale(puppet.nodes[n].parent))

\* C21: after the tree walk deformer_scale_data[d] is, for every deformer d,
\* the product of the interpolated scales of the rotation deformers on the
\* path from its root down to d inclusive (warp deformers contribute 1); a
\* root rotation deformer's entry is its own scale, a root warp deformer's 1.
C21_ScaleIsPathProduct ==
    WalkDone =>
        \A n \in DOMAIN puppet.nodes :
            puppet.nodes[n].kind # "ArtMesh" =>
                At(fd.deformer_scale_data, puppet.nodes[n].broad_index) = PathScale(n)

----------------------------------------------------------------------------
\* Properties of the rotation child of the tree walk, under Spec.

\* The step taken processes edge k of the walk, and the child of that edge.
Walked == status = "ok" /\ pc = "walk" /\ status' = "ok" /\ k' = k + 1
WalkChild == puppet.nodes[At(Edges(puppet), k)]

\* Two angles in degrees that differ by whole turns.
SameAngle(a, b) == RSub(a, b)[2] = 1 /\ RSub(a, b)[1] % 360 = 0

\* C22: when a rotation deformer is the child of a rotation deformer, the
\* tree walk adds to the child's angle the angle the parent's transform
\* induces at the child's origin, which is the parent's total rotation
\* (base angle + angle).
C22_ChildAngleCorrected ==
    [][(/\ Walked
        /\ WalkChild.kind = "RotationDeformer"
        /\ puppet.nodes[WalkChild.parent].kind = "RotationDeformer") =>
            LET parent == puppet.nodes[WalkChild.parent]
                parent_data == At(fd.rotation_deformer_data, parent.ind)
            IN  SameAngle(At(fd'.rotation_deformer_data, WalkChild.ind).angle,
                          RAdd(At(fd.rotation_deformer_data, WalkChild.ind).angle,
                               RAdd(parent.data.base_angle, parent_data.angle)))]_vars

----------------------------------------------------------------------------
\* Properties of draw_order_tree, under Spec.

\* The art meshes in the subtree of a draw-order node.
RECURSIVE SubtreeMeshes(_)
SubtreeMeshes(id) ==
    IF puppet.draw_order_nodes[id].kind = "ArtMesh"
    THEN {puppet.draw_order_nodes[id].index}
    ELSE UNION {SubtreeMeshes(c) : c \in {c \in DOMAIN puppet.draw_order_nodes :
                                            puppet.draw_order_nodes[c].parent = id}}

\* The position of art mesh m in the render order.
RenderPosition(m) ==
    CHOOSE i \in DOMAIN fd.art_mesh_render_orders : fd.art_mesh_render_orders[i] = m

\* The rounded draw order of an art-mesh child, 500 for a part child.
EmitKey(id) ==
    IF puppet.draw_order_nodes[id].kind = "ArtMesh"
    THEN RRound(At(fd.art_mesh_draw_orders, puppet.draw_order_nodes[id].index))
    ELSE Q(500)

\* Two children of one draw-order group, a ahead of b by (key, node id).
SiblingsInOrder(a, b) ==
    /\ a # b
    /\ puppet.draw_order_nodes[a].parent # 0
    /\ puppet.draw_order_nodes[a].parent = puppet.draw_order_nodes[b].parent
    /\ \/ RLt(EmitKey(a), EmitKey(b))
       \/ EmitKey(a) = EmitKey(b) /\ a < b

\* C23: within each draw-order group the children are emitted in ascending
\* order of (rounded draw order, node id), a part child having key 500, and
\* all art meshes of a part child's subtree are emitted together at the
\* part's position: every art mesh under an earlier child precedes every art
\* mesh under a later child.
C23_GroupsEmittedByKeyThenId ==
    Updated =>
        \A a, b \in DOMAIN puppet.draw_order_nodes :
            SiblingsInOrder(a, b) =>
                \A m \in SubtreeMeshes(a), n \in SubtreeMeshes(b) :
                    RenderPosition(m) < RenderPosition(n)

\* An update of the chain file has emitted a group in which an art mesh
\* (node 2, art mesh 1) and a part (node 3, holding art mesh 0) both have
\* key 500: the art mesh, the lower node id, comes first.
C23_Witness ==
    /\ Updated /\ file = 1
    /\ puppet.draw_order_nodes[2].kind = "ArtMesh"
    /\ puppet.draw_order_nodes[3].kind = "Part"
    /\ SiblingsInOrder(2, 3) /\ EmitKey(2) = Q(500) /\ EmitKey(3) = Q(500)
    /\ SubtreeMeshes(3) = {0}
    /\ fd.art_mesh_render_orders = <<1, 0>>

\* apply_warp_deformer has been called with one point that is not interior
\* but lies in the transition ring.
RingCall ==
    /\ pc = "kernel_done" /\ call.fn = "apply_warp_deformer"
    /\ ~is_normal(call.points_to_transform[1])
    /\ is_transition(call.points_to_transform[1])

\* C24: for every point that is not interior (not both 0 <= x < 1 and
\* 0 <= y < 1) but lies in the transition ring (-2 <= x <= 3, -2 <= y <= 3),
\* the case index apply_warp_deformer matches on is one of 0, 1, 2, 3, 5, 6,
\* 7, 8, and the call returns without reaching the unreachable arm of case 4.
C24_RingNeverCaseFour ==
    RingCall =>
        /\ calc_case_index(call.points_to_transform[1]) \in {0, 1, 2, 3, 5, 6, 7, 8}
        /\ ~ret.panicked

\* apply_warp_deformer has returned for the ring point (1, 1/2), whose case
\* index is 5.
C24_Witness ==
    /\ RingCall
    /\ call.points_to_transform[1] = <<Q(1), Rat(1, 2)>>
    /\ calc_case_index(call.points_to_transform[1]) = 5
    /\ ~ret.panicked

----------------------------------------------------------------------------
\* The edge the walk is at, and a step of the walk on it: the iteration
\* either completes or ends the update.
WalkParent == puppet.nodes[WalkChild.parent]
WalkAttempt ==
    /\ status = "ok" /\ pc = "walk" /\ k < Len(Edges(puppet))
    /\ (k' = k + 1 \/ status' # "ok")

\* C25: for every edge (parent, child) the walk processes, the slots mutated
\* for the child and the slots read for the parent are different
\* (buffer, index) slots; on an edge where they would coincide the update
\* panics on the assertion with the frame data untouched.
C25_EdgeSlotsDisjoint ==
    [][WalkAttempt =>
        \/ WalkWrites(WalkChild) \cap ParentReads(WalkParent) = {}
        \/ status' = "panic" /\ fd' = fd]_vars

----------------------------------------------------------------------------
\* The parent-deformer indices of a table form a forest: following them
\* from any deformer or art mesh ends at -1 within as many steps as there
\* are deformers, whatever the order of the deformers in the array.
RECURSIVE ReachesRoot(_, _, _)
ReachesRoot(table, index, fuel) ==
    IF index = -1 THEN TRUE
    ELSE IF fuel = 0 \/ ~InBounds(table.deformers, index) THEN FALSE
    ELSE ReachesRoot(table, At(table.deformers, index).parent_deformer_index, fuel - 1)

IsForest(table) ==
    /\ \A i \in DOMAIN table.deformers :
          ReachesRoot(table, table.deformers[i].parent_deformer_index,
                      Len(table.deformers) - 1)
    /\ \A j \in DOMAIN table.art_meshes :
          ReachesRoot(table, table.art_meshes[j].parent_deformer_index,
                      Len(table.deformers))

\* The arena nodes of deformer i (mesh = FALSE) or of art mesh i, and the
\* parent-deformer index the table gives the entity of node n.
NodesOf(mesh, i) ==
    {n \in DOMAIN puppet.nodes :
        /\ (puppet.nodes[n].kind = "ArtMesh") = mesh
        /\ puppet.nodes[n].broad_index = i}
TableParent(n) ==
    IF puppet.nodes[n].kind = "ArtMesh"
    THEN At(Files[file].table.art_meshes, puppet.nodes[n].broad_index).parent_deformer_index
    ELSE At(Files[file].table.deformers, puppet.nodes[n].broad_index).parent_deformer_index

ArenaMatchesTable ==
    LET table == Files[file].table
    IN  /\ Len(puppet.nodes) = Len(table.deformers) + Len(table.art_meshes)
        /\ \A i \in DOMAIN table.deformers : Cardinality(NodesOf(FALSE, i - 1)) = 1
        /\ \A j \in DOMAIN table.art_meshes : Cardinality(NodesOf(TRUE, j - 1)) = 1
        /\ \A n \in DOMAIN puppet.nodes :
              /\ (n \in Range(puppet.node_roots)) <=> (TableParent(n) = -1)
              /\ TableParent(n) # -1 =>
                    /\ puppet.nodes[n].parent \in NodesOf(FALSE, TableParent(n))
                    /\ puppet.nodes[puppet.nodes[n].parent].kind # "ArtMesh"

\* C26: for any asset whose parent-deformer indices form a forest, in any
\* array order, puppet_from_moc3 returns a puppet whose arena has exactly one
\* node per deformer and per art mesh, whose node_roots are the nodes with
\* parent index -1, whose other nodes hang under the node of their
\* parent-deformer index, and whose art-mesh nodes have no children.
C26_ForestBuildsArena ==
    (pc # "parse" /\ read_le(Files[file]) /\ IsForest(Files[file].table)) =>
        /\ ~(pc = "end" /\ puppet = NoPuppet)
        /\ ArenaMatchesTable

----------------------------------------------------------------------------
\* A call of update_points with delta_seconds = 0 has returned.
ZeroStep ==
    /\ pc = "pendulum" /\ status = "ok"
    /\ pendulum'.calls = pendulum.calls + 1 /\ ~pendulum'.moved

\* C27: update_points with dt = 0 changes nothing: every point's last
\* position, current position and velocity, the anchor's included, and
\* last_global_rotation keep their values, so the rotation the next step
\* with dt # 0 subtracts from is that of the most recent step with dt # 0.
C27_ZeroDeltaChangesNothing ==
    [][ZeroStep =>
        /\ pendulum'.points = pendulum.points
        /\ pendulum'.last_global_rotation = pendulum.last_global_rotation
        /\ pendulum'.vertexes = pendulum.vertexes
        /\ status' = status]_vars

\* A call with dt = 0 has returned after a call with dt # 0 that moved the
\* anchor to (0, 1): the anchor is still there and the bob still hangs at
\* its radius below it.
C27_Witness ==
    /\ pc = "pendulum" /\ status = "ok"
    /\ pendulum.calls = 2 /\ ~pendulum.moved
    /\ Len(pendulum.points) = 2
    /\ pendulum.points[1].cur_position = VQ(0, 1)
    /\ pendulum.points[1].last_position = VQ(0, 0)
    /\ pendulum.points[2].cur_position = VQ(0, 4)
    /\ pendulum.last_global_rotation = Q(0)

----------------------------------------------------------------------------
\* The walk is about to process an edge whose child is a rotation deformer.
RotationChildEdge ==
    /\ status = "ok" /\ pc = "walk" /\ k < Len(Edges(puppet))
    /\ WalkChild.kind = "RotationDeformer"

\* C28: when the child of an edge is a rotation deformer, the transform, the
\* opacity and the color slot the walk updates for it are all indexed by its
\* rotation-specific index, and every index lies within its per-kind buffer.
C28_RotationChildOwnSlots ==
    RotationChildEdge =>
        \A slot \in WalkWrites(WalkChild) \ {<<"deformer_scale_data", WalkChild.broad_index>>} :
            /\ slot[2] = WalkChild.ind
            /\ InBounds(fd[slot[1]], slot[2])

----------------------------------------------------------------------------
\* C29: every blend-shape applicator the builder produces has kind_index
\* equal to the target index of its blend shape (target_indices[i] of the
\* blend-shape art mesh or warp deformer), the entity whose buffer its gated
\* contribution is added to.
C29_BlendKindIndexIsTarget ==
    (pc # "parse" /\ status # "err") =>
        \A a \in DOMAIN puppet.applicators :
            IsSome(puppet.applicators[a].blend) =>
                puppet.applicators[a].kind_index = puppet.applicators[a].target

----------------------------------------------------------------------------
\* Properties of Renderer::render, under KernelSpec.

\* C30: within one render pass every drawn art mesh that has masks gets a
\* stencil reference that is non-zero and different from the reference of
\* every other masked mesh of the frame, for any number of masked meshes in
\* the render order.
C30_StencilReferencesDistinct ==
    (pc = "kernel_done" /\ call.fn = "render") =>
        /\ ~ret.panicked
        /\ \A a \in DOMAIN ret.value :
              ret.value[a].masked =>
                  /\ ret.value[a].mask_reference # 0
                  /\ \A b \in DOMAIN ret.value :
                        (b # a /\ ret.value[b].masked) =>
                            ret.value[b].mask_reference # ret.value[a].mask_reference

====
